---- MODULE Spec2Model ----
(***************************************************************************)
(* Chat request pipeline of the web chat application:                      *)
(*   - the per-conversation promise-chained lock                           *)
(*     (src/app/api/conversation/route.ts, acquireConversationLock);       *)
(*   - the file-backed conversation store (src/unnamed/part_003);          *)
(*   - the chat POST handler and the conversations PATCH / DELETE / POST   *)
(*     handlers that drive them.                                           *)
(* Every await of the source is a step boundary: the code between two      *)
(* awaits runs atomically on the JavaScript event loop.                    *)
(***************************************************************************)
EXTENDS Integers, Sequences, FiniteSets, TLC

(***************************************************************************)
(* Bounds of the model.                                                    *)
(***************************************************************************)
MaxAcquisitions == 3
MaxFreshIds == 2
MaxStored == 3
MaxIncoming == 2
MaxConvIndex == 3
MaxRequests == 2
MaxWrites == 3
MaxChunks == 2
MaxPromptScore == 22
MaxAttachmentCount == 4
MaxToolRequests == 2
MaxTokens == 3

\* Conversation ids are conversation<N>; N stands for the id.
ConvIds == 1..MaxConvIndex
LockConvIds == {1, 2}

Callers == {"r1", "r2", "r3"}
Posts == {"r1", "r2"}
Patchers == {"pa"}
Deleters == {"d1", "d2"}
Creators == {"cr", "c2"}
Procs == Callers \cup Patchers \cup Deleters \cup Creators

VARIABLES
  conversationLockQueues,  \* Map<string, ConversationLockQueue>: id -> queue object (0 = no entry)
  queueTail,               \* queue object -> acquisition whose nextTail is queue.tail
  acqs,                    \* one record per acquireConversationLock call, in call order
  pc,                      \* position of every caller / request
  held,                    \* caller -> acquisition whose release function it holds (0 = null)
  files,                   \* CONVERSATIONS_DIR: conversation id -> bundle, for the files that exist
  nextId,                  \* number of ids createMessageId has generated
  globalActive,            \* globalInfo.json: the active conversation id (0 = none)
  lastCall,                \* the latest store call: its kind, the messages given to it that
                           \* toStoredMessage keeps, and the messages stored before it
  request,                 \* the inputs of the request a handler is serving
  record,                  \* the ConversationRecord bundle a handler has loaded
  response,                \* the HTTP status a handler answered with (0 = none yet)
  releaseCalls,            \* calls of the release function made by the request being served
  stream,                  \* execute(): streamCompleted, assistantText, modelUsedForResponse
  persisted,               \* conversation id -> message ids written by completed store writes
  renamed,                 \* conversation id -> name written by the latest completed rename ("" = none)
  uiCall,                  \* the locals of a deleteConversationForUi / loadConversationForUi call
  atomicFs,                \* a bundle file, the temp files of atomicWriteJson, its writers and a reader
  routing,                 \* the inputs of buildRoutingDecision, the environment, the decision, the chain
  toolContext,             \* toolContextCache and, for the request served, the tools asked for and promptForModel
  relay,                   \* execute(): the candidate loop, the model subprocess, the token queue, the drain loop
  knobs                    \* the dashboard controls, a user, and the carbon settings of two of its chat requests

auxVars == <<atomicFs, routing, toolContext, relay, knobs>>
lockVars == <<conversationLockQueues, queueTail, acqs>>
storeVars == <<files, nextId, globalActive, lastCall>>
handlerVars == <<request, record, response, releaseCalls, stream, persisted, renamed, uiCall, auxVars>>
vars == <<conversationLockQueues, queueTail, acqs, pc, held, files, nextId, globalActive, lastCall,
          request, record, response, releaseCalls, stream, persisted, renamed, uiCall, auxVars>>

coreVars == <<lockVars, pc, held, storeVars, request, record, response, releaseCalls, stream,
              persisted, renamed, uiCall>>

AcqIds == 1..MaxAcquisitions

(***************************************************************************)
(* Promises of acquireConversationLock.  Acquisition n owns two promises:  *)
(* gate_n, resolved by releaseGate(), and nextTail_n =                     *)
(* previousTail.then(() => gate, () => gate).  previousTail is either the  *)
(* nextTail of an earlier acquisition or Promise.resolve() (written 0).    *)
(***************************************************************************)
PromiseResolved(t) == IF t = 0 THEN TRUE ELSE acqs[t].tail

\* nextTail_n settles once previousTail has settled and the gate it then
\* adopts has been resolved.
TailSettledIgnoringGate(n) == PromiseResolved(acqs[n].prev)

TailCanSettle(n) == PromiseResolved(acqs[n].prev) /\ acqs[n].gate

\* The synchronous prefix of acquireConversationLock with the assignment
\* queue.tail = nextTail left out.
AcquireSyncNoTailUpdate(p, c) ==
  LET n == Len(acqs) + 1
      hasEntry == conversationLockQueues[c] # 0
      queue == IF hasEntry THEN conversationLockQueues[c] ELSE n
      previousTail == IF hasEntry THEN queueTail[queue] ELSE 0
  IN /\ Len(acqs) < MaxAcquisitions
     /\ acqs' = Append(acqs, [conv |-> c, queue |-> queue, prev |-> previousTail,
                              gate |-> FALSE, tail |-> FALSE, released |-> FALSE,
                              returned |-> FALSE, owner |-> p])
     /\ queueTail' = IF hasEntry THEN queueTail ELSE [queueTail EXCEPT ![queue] = n]
     /\ conversationLockQueues' = [conversationLockQueues EXCEPT ![c] = queue]

\* The synchronous prefix of acquireConversationLock, up to its await.
AcquireSync(p, c) ==
  LET n == Len(acqs) + 1
      hasEntry == conversationLockQueues[c] # 0
      queue == IF hasEntry THEN conversationLockQueues[c] ELSE n
      previousTail == IF hasEntry THEN queueTail[queue] ELSE 0
  IN /\ Len(acqs) < MaxAcquisitions
     /\ acqs' = Append(acqs, [conv |-> c, queue |-> queue, prev |-> previousTail,
                              gate |-> FALSE, tail |-> FALSE, released |-> FALSE,
                              returned |-> FALSE, owner |-> p])
     /\ queueTail' = [queueTail EXCEPT ![queue] = n]
     /\ conversationLockQueues' = [conversationLockQueues EXCEPT ![c] = queue]

\* The acquisition a caller is waiting on: its latest, not yet returned.
PendingAcq(p) ==
  IF \E n \in 1..Len(acqs) : acqs[n].owner = p /\ ~acqs[n].returned
  THEN CHOOSE n \in 1..Len(acqs) : acqs[n].owner = p /\ ~acqs[n].returned
  ELSE 0

\* acquire returning without awaiting previousTail.
AcquireResumeWithoutWaiting(p) ==
  LET n == PendingAcq(p)
  IN /\ n # 0
     /\ acqs' = [acqs EXCEPT ![n].returned = TRUE]
     /\ UNCHANGED <<conversationLockQueues, queueTail>>

\* `await previousTail.catch(() => undefined)` resumes: acquire returns.
AcquireResume(p) ==
  LET n == PendingAcq(p)
  IN /\ n # 0
     /\ PromiseResolved(acqs[n].prev)
     /\ acqs' = [acqs EXCEPT ![n].returned = TRUE]
     /\ UNCHANGED <<conversationLockQueues, queueTail>>

\* A release function that deletes the map entry whatever queue.tail is.
ReleaseFnAlwaysDeleting(n) ==
  IF acqs[n].released
  THEN UNCHANGED lockVars
  ELSE /\ acqs' = [acqs EXCEPT ![n].released = TRUE, ![n].gate = TRUE]
       /\ conversationLockQueues' = [conversationLockQueues EXCEPT ![acqs[n].conv] = 0]
       /\ UNCHANGED queueTail

\* The release function returned by acquisition n.
ReleaseFn(n) ==
  IF acqs[n].released
  THEN UNCHANGED lockVars
  ELSE /\ acqs' = [acqs EXCEPT ![n].released = TRUE, ![n].gate = TRUE]
       /\ conversationLockQueues' =
            IF conversationLockQueues[acqs[n].conv] = acqs[n].queue /\ queueTail[acqs[n].queue] = n
            THEN [conversationLockQueues EXCEPT ![acqs[n].conv] = 0]
            ELSE conversationLockQueues
       /\ UNCHANGED queueTail

\* A caller holds the lock from the return of acquire to its first release.
Holds(n) == acqs[n].returned /\ ~acqs[n].released

Holders(c) == {n \in 1..Len(acqs) : acqs[n].conv = c /\ Holds(n)}

(***************************************************************************)
(* Conversation store (conversation-store module, src/unnamed/part_003).   *)
(* A message is [id, role, text]; the id "" is an absent id; the texts     *)
(* "" and " " are blank (empty after trim).  A bundle is                   *)
(* [name, model, msgs].                                                    *)
(***************************************************************************)
StoredRoles == {"user", "assistant"}
Blank(t) == t \in {"", " "}

FreshIdNames == <<"g1", "g2", "g3", "g4", "g5", "g6", "g7", "g8">>
createMessageId(k) == FreshIdNames[k]

DEFAULT_MODEL_NAME == "mDefault"

\* selectedModel, routingDecision.model and RELIABLE_FALLBACK_MODEL.
SelectedModel == "mSelected"
RoutedModel == "mLight"
FallbackModel == "mFallback"

defaultConversationTitle(c) == "default"

Ids(msgs) == {msgs[i].id : i \in 1..Len(msgs)}
NoDuplicateIds(msgs) == \A i, j \in 1..Len(msgs) : msgs[i].id = msgs[j].id => i = j

\* toStoredMessage: null for a role that is not stored or a blank text.
Storable(m) == m.role \in StoredRoles /\ ~Blank(m.text)

\* messages.map(toStoredMessage).filter(not null), k ids generated so far.
RECURSIVE ToStoredMessages(_, _)
ToStoredMessages(messages, k) ==
  IF messages = <<>> THEN <<>>
  ELSE LET m == Head(messages)
           fresh == Storable(m) /\ m.id = ""
           stored == [id |-> IF fresh THEN createMessageId(k + 1) ELSE m.id,
                      role |-> m.role, text |-> m.text]
       IN (IF Storable(m) THEN <<stored>> ELSE <<>>)
            \o ToStoredMessages(Tail(messages), IF fresh THEN k + 1 ELSE k)

GeneratedIds(messages) ==
  Cardinality({i \in 1..Len(messages) : Storable(messages[i]) /\ messages[i].id = ""})

\* The loop of mergeStoredMessagesPreservingExisting: seenMessageIds is
\* always the id set of mergedMessages.
RECURSIVE MergeLoop(_, _)
MergeLoop(mergedMessages, rest) ==
  IF rest = <<>> THEN mergedMessages
  ELSE IF Head(rest).id \in Ids(mergedMessages)
       THEN MergeLoop(mergedMessages, Tail(rest))
       ELSE MergeLoop(Append(mergedMessages, Head(rest)), Tail(rest))

\* The snapshot replaces the stored messages.
MergeReplacingExisting(existingMessages, incomingMessages) == incomingMessages

mergeStoredMessagesPreservingExisting(existingMessages, incomingMessages) ==
  IF existingMessages = <<>> THEN incomingMessages
  ELSE IF incomingMessages = <<>> THEN existingMessages
  ELSE MergeLoop(existingMessages, incomingMessages)

createConversationBundle(c) ==
  [name |-> defaultConversationTitle(c), model |-> DEFAULT_MODEL_NAME, msgs |-> <<>>]

FileExists(c) == c \in DOMAIN files
WriteFile(fs, c, bundle) == [d \in DOMAIN fs \cup {c} |-> IF d = c THEN bundle ELSE fs[d]]
RemoveFile(fs, c) == [d \in DOMAIN fs \ {c} |-> fs[d]]

\* persistPromptSnapshot between loadBundle and saveBundle: the bundle to
\* save, from the loaded bundle, the request's messages and modelName.
SnapshotBundle(bundle, messages, modelName, k) ==
  [bundle EXCEPT
     !.msgs = mergeStoredMessagesPreservingExisting(bundle.msgs, ToStoredMessages(messages, k)),
     !.model = IF modelName # "" THEN modelName ELSE bundle.model]

\* appendAssistantCompletion between load and save, for a non-blank text.
AppendedBundle(bundle, text, k) ==
  IF Len(bundle.msgs) > 0 /\ bundle.msgs[Len(bundle.msgs)].role = "assistant"
       /\ bundle.msgs[Len(bundle.msgs)].text = text
  THEN bundle
  ELSE [bundle EXCEPT !.msgs = Append(bundle.msgs,
          [id |-> createMessageId(k + 1), role |-> "assistant", text |-> text])]

AppendGenerates(bundle, text) == AppendedBundle(bundle, text, 0) # bundle

NoCall == [op |-> "none", conv |-> 0, before |-> <<>>, raw |-> <<>>, k |-> 0]

StoreIdle ==
  /\ files = [c \in {1} |-> createConversationBundle(c)]
  /\ nextId = 0
  /\ globalActive = 0
  /\ lastCall = NoCall

NoRequest == [conv |-> 0, messages |-> <<>>, attachmentsInvalid |-> FALSE, promptThreshold |-> 0,
              name |-> "", acq |-> 0, saved |-> FALSE]
NoRecord == [name |-> "", model |-> "", msgs |-> <<>>]
NoStream == [completed |-> FALSE, text |-> "", model |-> "", events |-> <<>>]
NoUiCall == [conv |-> 0, preferred |-> 0, listed |-> {}, next |-> 0]

HandlersIdle ==
  /\ request = [p \in Procs |-> NoRequest]
  /\ record = [p \in Procs |-> NoRecord]
  /\ response = [p \in Procs |-> 0]
  /\ releaseCalls = [p \in Procs |-> 0]
  /\ stream = [p \in Procs |-> NoStream]
  /\ persisted = [c \in ConvIds |-> {}]
  /\ renamed = [c \in ConvIds |-> ""]
  /\ uiCall = [p \in Procs |-> NoUiCall]

(***************************************************************************)
(* atomicWriteJson (src/unnamed/part_003).  A file is an inode holding     *)
(* the chunks written so far of one serialized payload; a path names an    *)
(* inode.  fs.writeFile writes its data chunk by chunk, fs.readFile reads  *)
(* the inode it opened chunk by chunk up to the end of file, fs.rename     *)
(* makes the target path name the temp file's inode in one step.           *)
(***************************************************************************)
Writers == {"w1", "w2"}

AtomicFsIdle ==
  atomicFs = [target |-> 1,
              inodes |-> <<[payload |-> 0, len |-> MaxChunks]>>,
              tempPath |-> [w \in Writers |-> 0],
              wpc |-> [w \in Writers |-> "idle"],
              rpc |-> "idle", fd |-> 0, raw |-> <<>>]

(***************************************************************************)
(* Routing (src/app/api/conversation/route.ts).  A model name             *)
(* "<provider>/<name>" is the record of its two parts.  A prompt is what   *)
(* the scoring functions see of it: whether it is blank after trim, and    *)
(* the sum of its length score and its instruction-complexity score.       *)
(***************************************************************************)
ModelName(provider, name) == [provider |-> provider, name |-> name]

DEFAULT_MODEL == ModelName("anthropic", "claude-opus-4-5")
RELIABLE_FALLBACK_MODEL == ModelName("openai", "gpt-5-mini")

CHAT_MODELS ==
  { ModelName("anthropic", "claude-opus-4-5"), ModelName("anthropic", "claude-sonnet-4-5"),
    ModelName("anthropic", "claude-haiku-4-5"),
    ModelName("openai", "gpt-5"), ModelName("openai", "gpt-5-mini"), ModelName("openai", "gpt-5-nano"),
    ModelName("google", "gemini-2.5-pro"), ModelName("google", "gemini-2.5-flash"),
    ModelName("google", "gemini-2.5-flash-lite") }

IMAGE_MODELS == { ModelName("openai", "dall-e-3"), ModelName("openai", "gpt-image-1") }

ALLOWED_MODELS == CHAT_MODELS \cup IMAGE_MODELS

\* Model names no set of the source lists; only environment variables can name them.
UnlistedModels ==
  { ModelName("anthropic", "claude-3"), ModelName("mistral", "large"), ModelName("mistral", "small") }

\* process.env as the module constants read it when the module is loaded.
DefaultEnv ==
  [LIGHT_TIER_MODEL_DEFAULT |-> ModelName("openai", "gpt-5-nano"),
   TOOLING_TIER_MODEL_DEFAULT |-> ModelName("openai", "gpt-5-mini"),
   HEAVY_TIER_MODEL_DEFAULT |-> DEFAULT_MODEL,
   ENABLE_MODEL_FAILOVER |-> FALSE]

Envs ==
  [LIGHT_TIER_MODEL_DEFAULT : {ModelName("openai", "gpt-5-nano"), ModelName("mistral", "small")},
   TOOLING_TIER_MODEL_DEFAULT : {ModelName("openai", "gpt-5-mini"), ModelName("mistral", "small")},
   HEAVY_TIER_MODEL_DEFAULT : {DEFAULT_MODEL, ModelName("mistral", "large")},
   ENABLE_MODEL_FAILOVER : BOOLEAN]

MaxSensitivity == 100
DefaultSensitivity == 55
DefaultCompression == 50

LIGHT_TIER_MAX_TOKENS == 900
TOOLING_TIER_MAX_TOKENS == 1400
HEAVY_TIER_MAX_TOKENS == 2600
MIN_HISTORY_WINDOW_MESSAGES == 6
MAX_HISTORY_WINDOW_MESSAGES == 24
MIN_HISTORY_SUMMARY_CHARS == 900
MAX_HISTORY_SUMMARY_CHARS == 4200

NoDecision ==
  [tier |-> "none", model |-> DEFAULT_MODEL, heavyModel |-> DEFAULT_MODEL, allowEscalation |-> FALSE,
   maxTokens |-> 0, historyWindowMessages |-> 0, historySummaryMaxChars |-> 0]

NoTools == [webSearchEnabled |-> FALSE, deepSearchEnabled |-> FALSE, attachmentCount |-> 0]

RoutingIdle ==
  routing = [latestUserMessage |-> [blank |-> TRUE, score |-> 0],
             selectedModel |-> DEFAULT_MODEL,
             tools |-> NoTools,
             settings |-> [routingSensitivity |-> DefaultSensitivity, historyCompression |-> DefaultCompression],
             env |-> DefaultEnv,
             decision |-> NoDecision,
             chain |-> <<>>,
             highestTier |-> 0]

(***************************************************************************)
(* Tool contexts of the POST handler.  promptForModel is the sequence of   *)
(* the parts it is concatenated from.                                      *)
(***************************************************************************)
NoToolRequest == [attachments |-> FALSE, webSearchEnabled |-> FALSE, deepSearchEnabled |-> FALSE]

ToolContextIdle ==
  toolContext = [pc |-> "idle", request |-> NoToolRequest, toolContextCache |-> {},
                 promptForModel |-> <<>>, threw |-> {}, response |-> 0, requests |-> 0]

(***************************************************************************)
(* Streaming relay: execute() of the POST handler.  A text is the sequence *)
(* of its streaming tokens; token events carry the tokens 1, 2, ...; the   *)
(* token 0 is a text that no token event carried.                          *)
(***************************************************************************)
NoChild ==
  [state |-> "none", armed |-> FALSE, assistantText |-> <<>>, tokenText |-> <<>>,
   reportedError |-> "", finalSeen |-> FALSE]

NoAttempt == [text |-> <<>>, model |-> "", tokenText |-> <<>>]

RelayStart(modelCandidates, failover, aborted) ==
  [main |-> "spawn", drain |-> "check", aborted |-> aborted,
   modelCandidates |-> modelCandidates, failover |-> failover,
   candidate |-> 1, attempt |-> 1, useStreaming |-> TRUE,
   child |-> NoChild, settled |-> "", lastModelError |-> "",
   pendingTokens |-> <<>>, wakeDrain |-> "null", streamClosed |-> FALSE, sawTokenEvent |-> FALSE,
   assistantText |-> <<>>, streamCompleted |-> FALSE, modelUsedForResponse |-> RoutedModel,
   written |-> <<>>, persistedText |-> <<>>, released |-> FALSE,
   enqueued |-> <<>>, tokens |-> 0, attempted |-> {}, succeeded |-> NoAttempt,
   ranOnAfterAbort |-> FALSE,
   rounds |-> 0, pendingAtClose |-> 0,
   spawnCause |-> "", spawns |-> <<>>]

RelayIdle == relay = [RelayStart(<<RoutedModel>>, FALSE, FALSE) EXCEPT !.main = "idle", !.drain = "idle"]

DEFAULT_USER_ID == "proof-user-1"

\* A value of the request's JSON: something that is not a number, a number
\* that is not finite, or an integer.
NoNumber == [type |-> "undefined", finite |-> FALSE, value |-> 0]

\* requestBody.carbonSettings when the body has none.
NoCarbonSettings == [object |-> FALSE, routingSensitivity |-> NoNumber, historyCompression |-> NoNumber]

NoServed == [served |-> FALSE, raw |-> NoCarbonSettings, decision |-> NoDecision]

KnobsIdle ==
  knobs = [controls |-> [routingSensitivity |-> DefaultSensitivity,
                         historyCompression |-> DefaultCompression,
                         lockedUserKnobs |-> {}],
           userId |-> DEFAULT_USER_ID,
           latestUserMessage |-> [blank |-> TRUE, score |-> 0],
           tools |-> NoTools,
           first |-> NoServed,
           second |-> NoServed]

AuxIdle == AtomicFsIdle /\ RoutingIdle /\ ToolContextIdle /\ RelayIdle /\ KnobsIdle

(***************************************************************************)
(* Lock specification: callers acquire, wait, hold, release, and may call  *)
(* a release function they were given again later.                         *)
(***************************************************************************)
CoreIdle ==
  /\ conversationLockQueues = [c \in ConvIds |-> 0]
  /\ queueTail = [q \in AcqIds |-> 0]
  /\ acqs = <<>>
  /\ pc = [p \in Procs |-> "idle"]
  /\ held = [p \in Procs |-> 0]
  /\ StoreIdle
  /\ HandlersIdle

LockInit == CoreIdle /\ AuxIdle

CallAcquire(p) ==
  /\ pc[p] = "idle"
  /\ \E c \in LockConvIds : AcquireSync(p, c)
  /\ pc' = [pc EXCEPT ![p] = "waiting"]
  /\ UNCHANGED <<held, storeVars, handlerVars>>

AcquireReturns(p) ==
  /\ pc[p] = "waiting"
  /\ AcquireResume(p)
  /\ pc' = [pc EXCEPT ![p] = "holding"]
  /\ held' = [held EXCEPT ![p] = PendingAcq(p)]
  /\ UNCHANGED <<storeVars, handlerVars>>

SettleTail(n) ==
  /\ n \in 1..Len(acqs)
  /\ ~acqs[n].tail
  /\ TailCanSettle(n)
  /\ acqs' = [acqs EXCEPT ![n].tail = TRUE]
  /\ UNCHANGED <<conversationLockQueues, queueTail, pc, held, storeVars, handlerVars>>

CallRelease(p) ==
  /\ pc[p] = "holding"
  /\ ReleaseFn(held[p])
  /\ pc' = [pc EXCEPT ![p] = "idle"]
  /\ UNCHANGED <<held, storeVars, handlerVars>>

CallReleaseAgain(p) ==
  /\ pc[p] # "holding"
  /\ held[p] # 0
  /\ ReleaseFn(held[p])
  /\ UNCHANGED <<pc, held, storeVars, handlerVars>>

LockNext ==
  \/ \E p \in Callers : CallAcquire(p)
  \/ \E p \in Callers : AcquireReturns(p)
  \/ \E n \in AcqIds : SettleTail(n)
  \/ \E p \in Callers : CallRelease(p)
  \/ \E p \in Callers : CallReleaseAgain(p)

SpecLock == LockInit /\ [][LockNext]_vars

\* The event loop runs every ready continuation; a holder calls release.
SpecLockFair ==
  /\ SpecLock
  /\ \A p \in Callers : WF_vars(AcquireReturns(p)) /\ WF_vars(CallRelease(p))
  /\ \A n \in AcqIds : WF_vars(SettleTail(n))

(***************************************************************************)
(* Store calls made one at a time on an existing conversation: each call   *)
(* runs from its loadBundle to its saveBundle with no other call between.  *)
(***************************************************************************)
UiMessages ==
  {[id |-> "a", role |-> "user", text |-> "x"],
   [id |-> "", role |-> "user", text |-> "x"],
   [id |-> "a", role |-> "user", text |-> "y"],
   [id |-> "b", role |-> "assistant", text |-> "x"],
   [id |-> "b", role |-> "system", text |-> " "]}

IncomingLists == UNION {[1..n -> UiMessages] : n \in 0..MaxIncoming}

\* persistPromptSnapshot(c, messages, {allowCreate: false, modelName}) on an
\* existing file, with updateGlobalActiveConversation.
PersistPromptSnapshotCall(c, messages, modelName, op) ==
  LET bundle == SnapshotBundle(files[c], messages, modelName, nextId)
  IN /\ FileExists(c)
     /\ nextId + GeneratedIds(messages) <= MaxFreshIds
     /\ Len(bundle.msgs) <= MaxStored
     /\ files' = WriteFile(files, c, bundle)
     /\ nextId' = nextId + GeneratedIds(messages)
     /\ globalActive' = c
     /\ lastCall' = [op |-> op, conv |-> c, before |-> files[c].msgs,
                     raw |-> SelectSeq(messages, Storable), k |-> nextId]

SnapshotCall ==
  /\ \E messages \in IncomingLists :
       PersistPromptSnapshotCall(1, messages, RoutedModel, "persist")
  /\ UNCHANGED <<lockVars, pc, held, handlerVars>>

\* The same call made again with the same messages.
SnapshotRepeat ==
  /\ lastCall.op = "persist"
  /\ PersistPromptSnapshotCall(lastCall.conv, lastCall.raw, "", "repeat")
  /\ UNCHANGED <<lockVars, pc, held, handlerVars>>

MergeInit == LockInit

MergeNext == SnapshotCall \/ SnapshotRepeat

SpecMerge == MergeInit /\ [][MergeNext]_vars

(***************************************************************************)
(* The chat POST handler (src/app/api/conversation/route.ts, POST) and the *)
(* rename handler (PATCH of src/app/api/conversations/route.ts).  Each     *)
(* action is the code between two awaits.                                   *)
(***************************************************************************)
ChatConvIds == {1, 2}
MessageA == [id |-> "a", role |-> "user", text |-> "x"]
MessageB == [id |-> "b", role |-> "user", text |-> "y"]

\* The request bodies: conversation id, messages, an attachment payload with
\* no valid OCR attachment, and the prompt threshold of the user (0 = none).
ChatRequests ==
  {[NoRequest EXCEPT !.conv = 1, !.messages = <<MessageA>>],
   [NoRequest EXCEPT !.conv = 1, !.messages = <<MessageB>>],
   [NoRequest EXCEPT !.conv = 1, !.messages = <<>>],
   [NoRequest EXCEPT !.conv = 2, !.messages = <<MessageA>>],
   [NoRequest EXCEPT !.conv = 1, !.messages = <<MessageB>>, !.attachmentsInvalid = TRUE],
   [NoRequest EXCEPT !.conv = 1, !.messages = <<MessageA>>, !.promptThreshold = 1]}

\* What execute()'s try block can end with: a throw, or streamCompleted
\* with an assistant text produced by a model of the execution chain.
StreamOutcomes ==
  {[completed |-> FALSE, text |-> "", model |-> RoutedModel, events |-> <<>>],
   [completed |-> TRUE, text |-> "x", model |-> RoutedModel, events |-> <<>>],
   [completed |-> TRUE, text |-> "x", model |-> FallbackModel, events |-> <<>>],
   [completed |-> TRUE, text |-> " ", model |-> RoutedModel, events |-> <<>>]}

\* getLatestUserMessage(messages) !== null
HasUserMessage(messages) ==
  \E i \in 1..Len(messages) : messages[i].role = "user" /\ ~Blank(messages[i].text)

\* countPromptMessages
CountPromptMessages(msgs) ==
  Cardinality({i \in 1..Len(msgs) : msgs[i].role = "user" /\ ~Blank(msgs[i].text)})

RECURSIVE SumPromptCounts(_)
SumPromptCounts(S) ==
  IF S = {} THEN 0
  ELSE LET c == CHOOSE d \in S : TRUE
       IN CountPromptMessages(files[c].msgs) + SumPromptCounts(S \ {c})

\* getStoredPromptCountForUser, every bundle belonging to the one user.
getStoredPromptCountForUser == SumPromptCounts(DOMAIN files)

Respond(p, status, position) ==
  /\ pc' = [pc EXCEPT ![p] = position]
  /\ response' = [response EXCEPT ![p] = status]

\* releaseConversationLock(); releaseConversationLock = null
ReleaseAndClear(p) ==
  /\ ReleaseFn(held[p])
  /\ held' = [held EXCEPT ![p] = 0]
  /\ releaseCalls' = [releaseCalls EXCEPT ![p] = @ + 1]

\* if (releaseConversationLock) { releaseConversationLock(); ... = null }
ReleaseIfHeld(p) ==
  IF held[p] # 0 THEN ReleaseAndClear(p) ELSE UNCHANGED <<lockVars, held, releaseCalls>>

\* POST up to `await acquireConversationLock(...)`.
PostStart(p) ==
  /\ pc[p] \in {"idle", "done"}
  /\ Len(acqs) < MaxRequests
  /\ \E body \in ChatRequests :
       /\ AcquireSync(p, body.conv)
       /\ request' = [request EXCEPT ![p] = [body EXCEPT !.acq = Len(acqs) + 1]]
  /\ pc' = [pc EXCEPT ![p] = "waitLock"]
  /\ response' = [response EXCEPT ![p] = 0]
  /\ releaseCalls' = [releaseCalls EXCEPT ![p] = 0]
  /\ stream' = [stream EXCEPT ![p] = NoStream]
  /\ record' = [record EXCEPT ![p] = NoRecord]
  /\ UNCHANGED <<held, storeVars, persisted, renamed, uiCall, auxVars>>

\* POST returns before the lock: no conversation id (400).
PostRejectEarly(p) ==
  /\ pc[p] \in {"idle", "done"}
  /\ Respond(p, 400, "done")
  /\ request' = [request EXCEPT ![p] = NoRequest]
  /\ releaseCalls' = [releaseCalls EXCEPT ![p] = 0]
  /\ stream' = [stream EXCEPT ![p] = NoStream]
  /\ record' = [record EXCEPT ![p] = NoRecord]
  /\ UNCHANGED <<lockVars, held, storeVars, persisted, renamed, uiCall, auxVars>>

\* acquireConversationLock returns the release function.
PostLockGranted(p) ==
  /\ pc[p] = "waitLock"
  /\ AcquireResume(p)
  /\ held' = [held EXCEPT ![p] = PendingAcq(p)]
  /\ pc' = [pc EXCEPT ![p] = "threshold"]
  /\ UNCHANGED <<storeVars, handlerVars>>

\* A threshold check that lets the request at the threshold through.
PostThresholdAbove(p) ==
  /\ pc[p] = "threshold"
  /\ IF request[p].promptThreshold = 0 \/ getStoredPromptCountForUser <= request[p].promptThreshold
     THEN /\ pc' = [pc EXCEPT ![p] = "persistLoad"]
          /\ UNCHANGED <<lockVars, held, releaseCalls, response>>
     ELSE /\ ReleaseAndClear(p)
          /\ Respond(p, 429, "done")
  /\ UNCHANGED <<storeVars, request, record, stream, persisted, renamed, uiCall, auxVars>>

\* The prompt threshold check.
PostThreshold(p) ==
  /\ pc[p] = "threshold"
  /\ IF request[p].promptThreshold = 0
     THEN /\ pc' = [pc EXCEPT ![p] = "persistLoad"]
          /\ UNCHANGED <<lockVars, held, releaseCalls, response>>
     ELSE \/ /\ getStoredPromptCountForUser >= request[p].promptThreshold
             /\ ReleaseAndClear(p)
             /\ Respond(p, 429, "done")
          \/ /\ getStoredPromptCountForUser < request[p].promptThreshold
             /\ pc' = [pc EXCEPT ![p] = "persistLoad"]
             /\ UNCHANGED <<lockVars, held, releaseCalls, response>>
          \/ \* getStoredPromptCountForUser throws: the outer catch
             /\ ReleaseIfHeld(p)
             /\ Respond(p, 500, "done")
  /\ UNCHANGED <<storeVars, request, record, stream, persisted, renamed, uiCall, auxVars>>

\* persistPromptSnapshot through ensureConversationRecord, which creates a
\* missing bundle file.
PostPersistLoadCreating(p) ==
  LET c == request[p].conv
  IN /\ pc[p] = "persistLoad"
     /\ files' = IF FileExists(c) THEN files ELSE WriteFile(files, c, createConversationBundle(c))
     /\ record' = [record EXCEPT ![p] = IF FileExists(c) THEN files[c] ELSE createConversationBundle(c)]
     /\ pc' = [pc EXCEPT ![p] = "persistSave"]
     /\ UNCHANGED <<lockVars, held, releaseCalls, response, nextId, globalActive, lastCall,
                    request, stream, persisted, renamed, uiCall, auxVars>>

\* persistPromptSnapshot(..., {allowCreate: false}): ensureExistingConversationRecord.
PostPersistLoad(p) ==
  /\ pc[p] = "persistLoad"
  /\ IF ~FileExists(request[p].conv)
     THEN \* ENOENT: the inner catch answers 404
          /\ ReleaseAndClear(p)
          /\ Respond(p, 404, "done")
          /\ UNCHANGED record
     ELSE \/ /\ record' = [record EXCEPT ![p] = files[request[p].conv]]
             /\ pc' = [pc EXCEPT ![p] = "persistSave"]
             /\ UNCHANGED <<lockVars, held, releaseCalls, response>>
          \/ \* loadBundle throws another error: inner catch, rethrow, outer catch
             /\ ReleaseAndClear(p)
             /\ Respond(p, 500, "done")
             /\ UNCHANGED record
  /\ UNCHANGED <<storeVars, request, stream, persisted, renamed, uiCall, auxVars>>

\* The rest of persistPromptSnapshot: merge, saveBundle, updateGlobalActiveConversation.
SnapshotSave(p, modelName, next) ==
  LET c == request[p].conv
      bundle == SnapshotBundle(record[p], request[p].messages, modelName, nextId)
  IN /\ files' = WriteFile(files, c, bundle)
     /\ nextId' = nextId + GeneratedIds(request[p].messages)
     /\ globalActive' = c
     /\ persisted' = [persisted EXCEPT ![c] = @ \cup Ids(ToStoredMessages(request[p].messages, nextId))]
     /\ request' = [request EXCEPT ![p].saved = TRUE]
     /\ record' = [record EXCEPT ![p] = NoRecord]
     /\ pc' = [pc EXCEPT ![p] = next]
     /\ UNCHANGED <<lockVars, held, lastCall, response, releaseCalls, stream, renamed, uiCall, auxVars>>

PostPersistSave(p) ==
  /\ pc[p] = "persistSave"
  /\ SnapshotSave(p, SelectedModel, "validate")

\* The 400 answers given with the 400 path of the attachments leaving the lock held.
PostValidateKeepingLock(p) ==
  /\ pc[p] = "validate"
  /\ IF ~HasUserMessage(request[p].messages) \/ request[p].attachmentsInvalid
     THEN /\ Respond(p, 400, "done")
          /\ UNCHANGED <<lockVars, held, releaseCalls>>
     ELSE /\ pc' = [pc EXCEPT ![p] = "prepare"]
          /\ UNCHANGED <<lockVars, held, releaseCalls, response>>
  /\ UNCHANGED <<storeVars, request, record, stream, persisted, renamed, uiCall, auxVars>>

\* No user message, or an attachment payload without a valid attachment: 400.
PostValidate(p) ==
  /\ pc[p] = "validate"
  /\ IF ~HasUserMessage(request[p].messages) \/ request[p].attachmentsInvalid
     THEN /\ ReleaseIfHeld(p)
          /\ Respond(p, 400, "done")
     ELSE /\ pc' = [pc EXCEPT ![p] = "prepare"]
          /\ UNCHANGED <<lockVars, held, releaseCalls, response>>
  /\ UNCHANGED <<storeVars, request, record, stream, persisted, renamed, uiCall, auxVars>>

\* Routing decision, tool contexts and stream creation; a throw reaches the
\* outer catch.
PostPrepare(p) ==
  /\ pc[p] = "prepare"
  /\ \/ /\ pc' = [pc EXCEPT ![p] = "streaming"]
        /\ UNCHANGED <<lockVars, held, releaseCalls, response>>
     \/ /\ ReleaseIfHeld(p)
        /\ Respond(p, 500, "done")
  /\ UNCHANGED <<storeVars, request, record, stream, persisted, renamed, uiCall, auxVars>>

AppendPending(q) ==
  /\ pc[q] \in {"finally", "finPersistLoad", "finPersistSave", "appendLoad", "appendSave"}
  /\ stream[q].completed /\ ~Blank(stream[q].text)

\* execute(): the try block.
PostStream(p) ==
  /\ pc[p] = "streaming"
  /\ \E outcome \in StreamOutcomes :
       /\ (outcome.completed /\ ~Blank(outcome.text)) =>
            nextId + Cardinality({q \in Posts : AppendPending(q)}) < MaxFreshIds
       /\ stream' = [stream EXCEPT ![p] = outcome]
  /\ pc' = [pc EXCEPT ![p] = "finally"]
  /\ UNCHANGED <<lockVars, held, storeVars, request, record, response, releaseCalls, persisted, renamed, uiCall, auxVars>>

\* What the request has done since its stream ended, in order.
Emit(p, names) == stream' = [stream EXCEPT ![p].events = @ \o names]

\* A finally block that releases the lock before the completion is stored.
PostFinallyReleasing(p) ==
  /\ pc[p] = "finally"
  /\ pc' = [pc EXCEPT ![p] =
       IF stream[p].completed /\ ~Blank(stream[p].text)
       THEN IF stream[p].model # RoutedModel /\ stream[p].model # SelectedModel
            THEN "finPersistLoad" ELSE "appendLoad"
       ELSE "finRelease"]
  /\ ReleaseIfHeld(p)
  /\ Emit(p, <<"release">>)
  /\ UNCHANGED <<storeVars, request, record, response, persisted, renamed, uiCall, auxVars>>

\* finally: streamClosed, the drain has ended; what is persisted next.
PostFinally(p) ==
  /\ pc[p] = "finally"
  /\ pc' = [pc EXCEPT ![p] =
       IF stream[p].completed /\ ~Blank(stream[p].text)
       THEN IF stream[p].model # RoutedModel /\ stream[p].model # SelectedModel
            THEN "finPersistLoad" ELSE "appendLoad"
       ELSE "finRelease"]
  /\ UNCHANGED <<lockVars, held, storeVars, handlerVars>>

\* finally: persistPromptSnapshot with the model used; a throw is caught and
\* skips the append.
PostFinPersistLoad(p) ==
  /\ pc[p] = "finPersistLoad"
  /\ IF FileExists(request[p].conv)
     THEN /\ record' = [record EXCEPT ![p] = files[request[p].conv]]
          /\ pc' = [pc EXCEPT ![p] = "finPersistSave"]
     ELSE /\ pc' = [pc EXCEPT ![p] = "finRelease"]
          /\ UNCHANGED record
  /\ UNCHANGED <<lockVars, held, storeVars, request, response, releaseCalls, stream, persisted, renamed, uiCall, auxVars>>

PostFinPersistSave(p) ==
  /\ pc[p] = "finPersistSave"
  /\ SnapshotSave(p, stream[p].model, "appendLoad")

\* appendAssistantCompletion: ensureConversationRecord creates a missing file.
PostAppendLoad(p) ==
  LET c == request[p].conv
      bundle == IF FileExists(c) THEN files[c] ELSE createConversationBundle(c)
  IN /\ pc[p] = "appendLoad"
     /\ files' = IF FileExists(c) THEN files ELSE WriteFile(files, c, bundle)
     /\ record' = [record EXCEPT ![p] = IF AppendGenerates(bundle, stream[p].text) THEN bundle ELSE NoRecord]
     /\ pc' = [pc EXCEPT ![p] = IF AppendGenerates(bundle, stream[p].text) THEN "appendSave" ELSE "finRelease"]
     /\ UNCHANGED <<lockVars, held, nextId, globalActive, lastCall, request, response,
                    releaseCalls, stream, persisted, renamed, uiCall, auxVars>>

PostAppendSave(p) ==
  LET c == request[p].conv
  IN /\ pc[p] = "appendSave"
     /\ files' = WriteFile(files, c, AppendedBundle(record[p], stream[p].text, nextId))
     /\ nextId' = nextId + 1
     /\ persisted' = [persisted EXCEPT ![c] = @ \cup {createMessageId(nextId + 1)}]
     /\ record' = [record EXCEPT ![p] = NoRecord]
     /\ pc' = [pc EXCEPT ![p] = "finRelease"]
     /\ Emit(p, <<"append">>)
     /\ UNCHANGED <<lockVars, held, globalActive, lastCall, request, response, releaseCalls, renamed, uiCall, auxVars>>

\* finally: the release.
PostFinRelease(p) ==
  /\ pc[p] = "finRelease"
  /\ ReleaseIfHeld(p)
  /\ Emit(p, IF held[p] # 0 THEN <<"release">> ELSE <<>>)
  /\ pc' = [pc EXCEPT ![p] = "finish"]
  /\ UNCHANGED <<storeVars, request, record, response, persisted, renamed, uiCall, auxVars>>

\* The carbon-stats and finish events of a completed stream, or the stream error.
PostFinish(p) ==
  /\ pc[p] = "finish"
  /\ Respond(p, 200, "done")
  /\ Emit(p, IF stream[p].completed THEN <<"carbon-stats", "finish">> ELSE <<"error">>)
  /\ UNCHANGED <<lockVars, held, storeVars, request, record, releaseCalls, persisted, renamed, uiCall, auxVars>>

\* renameConversationForUi up to saveBundle.
RenameLoad(p) ==
  /\ pc[p] = "idle"
  /\ \E c \in ChatConvIds, name \in {"n1", " "} :
       IF ~FileExists(c)
       THEN Respond(p, 404, "idle") /\ UNCHANGED <<request, record>>
       ELSE IF Blank(name)
            THEN Respond(p, 400, "idle") /\ UNCHANGED <<request, record>>
            ELSE /\ request' = [request EXCEPT ![p] = [NoRequest EXCEPT !.conv = c, !.name = name]]
                 /\ record' = [record EXCEPT ![p] = files[c]]
                 /\ Respond(p, 0, "renameSave")
  /\ UNCHANGED <<lockVars, held, storeVars, releaseCalls, stream, persisted, renamed, uiCall, auxVars>>

\* saveBundle of renameConversationForUi and its answer.
RenameSave(p) ==
  LET c == request[p].conv
  IN /\ pc[p] = "renameSave"
     /\ files' = WriteFile(files, c, [record[p] EXCEPT !.name = request[p].name])
     /\ renamed' = [renamed EXCEPT ![c] = request[p].name]
     /\ record' = [record EXCEPT ![p] = NoRecord]
     /\ request' = [request EXCEPT ![p] = NoRequest]
     /\ Respond(p, 200, "idle")
     /\ UNCHANGED <<lockVars, held, nextId, globalActive, lastCall,
                    releaseCalls, stream, persisted, uiCall, auxVars>>

(***************************************************************************)
(* The DELETE and POST handlers of src/app/api/conversations/route.ts:     *)
(* deleteConversationForUi and loadConversationForUi, which take no lock.  *)
(* A listing (listConversationsForUi) is the set of conversation ids whose *)
(* files exist.                                                            *)
(***************************************************************************)
UiCallRest ==
  <<lockVars, held, nextId, lastCall, request, record, releaseCalls, stream, persisted, renamed, auxVars>>

\* getNextConversationId: the largest conversation number plus one.
getNextConversationId ==
  IF DOMAIN files = {} THEN 1
  ELSE (CHOOSE n \in DOMAIN files : \A m \in DOMAIN files : m <= n) + 1

\* DELETE up to the first await of deleteConversationForUi.
DeleteCall(p) ==
  /\ pc[p] = "idle"
  /\ \E c \in ConvIds, preferred \in {0, 1} :
       uiCall' = [uiCall EXCEPT ![p] = [NoUiCall EXCEPT !.conv = c, !.preferred = preferred]]
  /\ Respond(p, 0, "deleteList")
  /\ UNCHANGED <<files, globalActive, UiCallRest>>

\* The refusal of the last conversation dropped: `< 1` for `<= 1`.
DeleteListRefusingNone(p) ==
  LET existingConversations == DOMAIN files
      c == uiCall[p].conv
  IN /\ pc[p] = "deleteList"
     /\ IF c \notin existingConversations
        THEN Respond(p, 404, "idle") /\ uiCall' = [uiCall EXCEPT ![p] = NoUiCall]
        ELSE IF Cardinality(existingConversations) < 1
             THEN Respond(p, 400, "idle") /\ uiCall' = [uiCall EXCEPT ![p] = [NoUiCall EXCEPT !.conv = c]]
             ELSE pc' = [pc EXCEPT ![p] = "unlink"] /\ UNCHANGED <<response, uiCall, auxVars>>
     /\ UNCHANGED <<files, globalActive, UiCallRest>>

\* existingConversations and the two checks: "Conversation not found." (404),
\* "Cannot delete the last conversation." (400).
DeleteList(p) ==
  LET existingConversations == DOMAIN files
      c == uiCall[p].conv
  IN /\ pc[p] = "deleteList"
     /\ IF c \notin existingConversations
        THEN Respond(p, 404, "idle") /\ uiCall' = [uiCall EXCEPT ![p] = NoUiCall]
        ELSE IF Cardinality(existingConversations) <= 1
             THEN Respond(p, 400, "idle") /\ uiCall' = [uiCall EXCEPT ![p] = [NoUiCall EXCEPT !.conv = c]]
             ELSE pc' = [pc EXCEPT ![p] = "unlink"] /\ UNCHANGED <<response, uiCall, auxVars>>
     /\ UNCHANGED <<files, globalActive, UiCallRest>>

\* fs.unlink(filePath); ENOENT makes the handler answer 500.
DeleteUnlink(p) ==
  LET c == uiCall[p].conv
  IN /\ pc[p] = "unlink"
     /\ IF FileExists(c)
        THEN /\ files' = RemoveFile(files, c)
             /\ pc' = [pc EXCEPT ![p] = "relist"]
             /\ UNCHANGED <<response, uiCall, auxVars>>
        ELSE /\ Respond(p, 500, "idle")
             /\ uiCall' = [uiCall EXCEPT ![p] = NoUiCall]
             /\ UNCHANGED files
     /\ UNCHANGED <<globalActive, UiCallRest>>

\* remainingConversations
DeleteRelist(p) ==
  /\ pc[p] = "relist"
  /\ uiCall' = [uiCall EXCEPT ![p].listed = DOMAIN files]
  /\ pc' = [pc EXCEPT ![p] = "pick"]
  /\ UNCHANGED <<files, globalActive, response, UiCallRest>>

\* globalActiveId and nextActiveConversationId; the fallback is the first
\* remaining conversation by recency, any of them here, or undefined (0).
DeletePick(p) ==
  LET c == uiCall[p].conv
      remaining == uiCall[p].listed
      usable(d) == d # 0 /\ d # c /\ d \in remaining
  IN /\ pc[p] = "pick"
     /\ \E fallbackActiveId \in (IF remaining = {} THEN {0} ELSE remaining) :
          uiCall' = [uiCall EXCEPT ![p] = [NoUiCall EXCEPT !.next =
            IF usable(uiCall[p].preferred) THEN uiCall[p].preferred
            ELSE IF usable(globalActive) THEN globalActive
            ELSE fallbackActiveId]]
     /\ pc' = [pc EXCEPT ![p] = "ensure"]
     /\ UNCHANGED <<files, globalActive, response, UiCallRest>>

\* POST of the conversations route: loadConversationForUi().
CreateCall(p) ==
  /\ pc[p] = "idle"
  /\ uiCall' = [uiCall EXCEPT ![p] = NoUiCall]
  /\ Respond(p, 0, "ensure")
  /\ UNCHANGED <<files, globalActive, UiCallRest>>

\* ensureConversationRecord up to its saveBundle: loadBundle of the preferred
\* id, or getNextConversationId when there is none.
EnsureRecord(p) ==
  /\ pc[p] = "ensure"
  /\ IF uiCall[p].next # 0
     THEN /\ pc' = [pc EXCEPT ![p] = IF FileExists(uiCall[p].next) THEN "activate" ELSE "ensureSave"]
          /\ UNCHANGED uiCall
     ELSE /\ getNextConversationId <= MaxConvIndex
          /\ uiCall' = [uiCall EXCEPT ![p].next = getNextConversationId]
          /\ pc' = [pc EXCEPT ![p] = "ensureSave"]
  /\ UNCHANGED <<files, globalActive, response, UiCallRest>>

\* saveBundle(filePath, createConversationBundle(id))
EnsureSave(p) ==
  /\ pc[p] = "ensureSave"
  /\ files' = WriteFile(files, uiCall[p].next, createConversationBundle(uiCall[p].next))
  /\ pc' = [pc EXCEPT ![p] = "activate"]
  /\ UNCHANGED <<globalActive, response, uiCall, UiCallRest>>

\* updateGlobalActiveConversation and the handler's answer.
Activate(p) ==
  /\ pc[p] = "activate"
  /\ globalActive' = uiCall[p].next
  /\ uiCall' = [uiCall EXCEPT ![p] = NoUiCall]
  /\ Respond(p, IF p \in Creators THEN 201 ELSE 200, "idle")
  /\ UNCHANGED <<files, UiCallRest>>

DeleteInit == LockInit

DeleteNext ==
  \/ \E p \in Deleters : DeleteCall(p) \/ DeleteList(p) \/ DeleteUnlink(p) \/ DeleteRelist(p) \/ DeletePick(p)
  \/ CreateCall("cr")
  \/ \E p \in Deleters \cup {"cr"} : EnsureRecord(p) \/ EnsureSave(p) \/ Activate(p)

SpecDelete == DeleteInit /\ [][DeleteNext]_vars

\* Creating POSTs of the conversations route served at the same time, and a DELETE.
CreateNext ==
  \/ \E p \in Creators : CreateCall(p)
  \/ DeleteCall("d1") \/ DeleteList("d1") \/ DeleteUnlink("d1") \/ DeleteRelist("d1") \/ DeletePick("d1")
  \/ \E p \in Creators \cup {"d1"} : EnsureRecord(p) \/ EnsureSave(p) \/ Activate(p)

SpecCreate == DeleteInit /\ [][CreateNext]_vars

ChatInit == LockInit

PostStep(p) ==
  \/ PostStart(p) \/ PostRejectEarly(p) \/ PostLockGranted(p) \/ PostThreshold(p)
  \/ PostPersistLoad(p) \/ PostPersistSave(p) \/ PostValidate(p) \/ PostPrepare(p)
  \/ PostStream(p) \/ PostFinally(p) \/ PostFinPersistLoad(p) \/ PostFinPersistSave(p)
  \/ PostAppendLoad(p) \/ PostAppendSave(p) \/ PostFinRelease(p) \/ PostFinish(p)

ChatNext ==
  \/ \E p \in Posts : PostStep(p)
  \/ \E n \in AcqIds : SettleTail(n)

SpecChat == ChatInit /\ [][ChatNext]_vars

\* One chat request served while a DELETE and a creating POST of the
\* conversations route are.
ChatDeleteNext ==
  \/ acqs = <<>> /\ PostStart("r1")
  \/ acqs = <<>> /\ PostRejectEarly("r1")
  \/ PostLockGranted("r1") \/ PostThreshold("r1")
  \/ PostPersistLoad("r1") \/ PostPersistSave("r1") \/ PostValidate("r1") \/ PostPrepare("r1")
  \/ PostStream("r1") \/ PostFinally("r1") \/ PostFinPersistLoad("r1") \/ PostFinPersistSave("r1")
  \/ PostAppendLoad("r1") \/ PostAppendSave("r1") \/ PostFinRelease("r1") \/ PostFinish("r1")
  \/ \E n \in AcqIds : SettleTail(n)
  \/ DeleteCall("d1") \/ DeleteList("d1") \/ DeleteUnlink("d1") \/ DeleteRelist("d1") \/ DeletePick("d1")
  \/ CreateCall("cr")
  \/ \E p \in {"d1", "cr"} : EnsureRecord(p) \/ EnsureSave(p) \/ Activate(p)

SpecChatDelete == ChatInit /\ [][ChatDeleteNext]_vars

StoreNext ==
  \/ ChatNext
  \/ \E p \in Patchers : RenameLoad(p) \/ RenameSave(p)

SpecStore == ChatInit /\ [][StoreNext]_vars

(***************************************************************************)
(* Concurrent saveBundle writes of one bundle file and a reader of it      *)
(* (atomicWriteJson, loadBundle).                                          *)
(***************************************************************************)
AtomicRest == <<coreVars, routing, toolContext, relay, knobs>>

\* The content fs.readFile returned is a complete serialization of one payload.
CompleteContent(raw) == Len(raw) = MaxChunks /\ \A i \in 1..Len(raw) : raw[i] = raw[1]

\* fs.writeFile opening the target path itself: the file is truncated and
\* then written in place.
WriteFileOpenInPlace(w) ==
  /\ atomicFs.wpc[w] = "idle"
  /\ Len(atomicFs.inodes) < MaxWrites + 1
  /\ atomicFs' = [atomicFs EXCEPT
       !.inodes = Append([@ EXCEPT ![atomicFs.target] = [payload |-> Len(atomicFs.inodes), len |-> 0]],
                         [payload |-> Len(atomicFs.inodes), len |-> 0]),
       !.tempPath[w] = atomicFs.target,
       !.wpc[w] = "writing"]
  /\ UNCHANGED AtomicRest

\* atomicWriteJson up to the first chunk of fs.writeFile(tempPath, serialized):
\* the temp file, whose name is unique, is created empty.
WriteFileOpen(w) ==
  /\ atomicFs.wpc[w] = "idle"
  /\ Len(atomicFs.inodes) < MaxWrites + 1
  /\ atomicFs' = [atomicFs EXCEPT
       !.inodes = Append(@, [payload |-> Len(atomicFs.inodes), len |-> 0]),
       !.tempPath[w] = Len(atomicFs.inodes) + 1,
       !.wpc[w] = "writing"]
  /\ UNCHANGED AtomicRest

\* fs.writeFile writes the next chunk of the serialized payload.
WriteFileChunk(w) ==
  LET t == atomicFs.tempPath[w]
  IN /\ atomicFs.wpc[w] = "writing"
     /\ atomicFs' = [atomicFs EXCEPT
          !.inodes[t].len = @ + 1,
          !.wpc[w] = IF atomicFs.inodes[t].len + 1 = MaxChunks THEN "rename" ELSE "writing"]
     /\ UNCHANGED AtomicRest

\* fs.rename(tempPath, filePath) succeeds.
RenameOk(w) ==
  /\ atomicFs.wpc[w] = "rename"
  /\ atomicFs' = [atomicFs EXCEPT !.target = atomicFs.tempPath[w], !.tempPath[w] = 0, !.wpc[w] = "idle"]
  /\ UNCHANGED AtomicRest

\* fs.rename throws: the catch block.
RenameFails(w) ==
  /\ atomicFs.wpc[w] = "rename"
  /\ atomicFs' = [atomicFs EXCEPT !.wpc[w] = "cleanup"]
  /\ UNCHANGED AtomicRest

\* fs.unlink(tempPath), best effort, and the rethrow.
UnlinkTemp(w) ==
  /\ atomicFs.wpc[w] = "cleanup"
  /\ atomicFs' = [atomicFs EXCEPT !.tempPath[w] = 0, !.wpc[w] = "idle"]
  /\ UNCHANGED AtomicRest

\* loadBundle: fs.readFile opens the file the path names.
ReadFileOpen ==
  /\ atomicFs.rpc \in {"idle", "done"}
  /\ atomicFs' = [atomicFs EXCEPT !.rpc = "reading", !.fd = atomicFs.target, !.raw = <<>>]
  /\ UNCHANGED AtomicRest

\* fs.readFile reads the next chunk of the open file, or meets its end.
ReadFileChunk ==
  LET inode == atomicFs.inodes[atomicFs.fd]
  IN /\ atomicFs.rpc = "reading"
     /\ atomicFs' = IF Len(atomicFs.raw) < inode.len
                    THEN [atomicFs EXCEPT !.raw = Append(@, inode.payload)]
                    ELSE [atomicFs EXCEPT !.rpc = "done", !.fd = 0]
     /\ UNCHANGED AtomicRest

AtomicInit == LockInit

AtomicNext ==
  \/ \E w \in Writers : WriteFileOpen(w) \/ WriteFileChunk(w) \/ RenameOk(w) \/ RenameFails(w) \/ UnlinkTemp(w)
  \/ ReadFileOpen
  \/ ReadFileChunk

SpecAtomic == AtomicInit /\ [][AtomicNext]_vars

(***************************************************************************)
(* Routing decision and model execution chain.                             *)
(***************************************************************************)
RoutingRest == <<coreVars, atomicFs, toolContext, relay, knobs>>

\* Math.round is the identity on the integers the model passes.
clampInt(value, min, max) == IF value < min THEN min ELSE IF value > max THEN max ELSE value

getProviderFromModelName(modelName) ==
  IF modelName.provider \in {"anthropic", "openai", "google"} THEN modelName.provider ELSE "other"

pickTierModels(selectedModel, env) ==
  LET provider == getProviderFromModelName(selectedModel)
      recognized == selectedModel \in CHAT_MODELS
  IN  CASE provider = "anthropic" ->
             [light |-> ModelName("anthropic", "claude-haiku-4-5"),
              tooling |-> ModelName("anthropic", "claude-sonnet-4-5"),
              heavy |-> IF recognized THEN selectedModel ELSE ModelName("anthropic", "claude-opus-4-5")]
        [] provider = "google" ->
             [light |-> ModelName("google", "gemini-2.5-flash-lite"),
              tooling |-> ModelName("google", "gemini-2.5-flash"),
              heavy |-> IF recognized THEN selectedModel ELSE ModelName("google", "gemini-2.5-pro")]
        [] provider = "openai" ->
             [light |-> ModelName("openai", "gpt-5-nano"),
              tooling |-> ModelName("openai", "gpt-5-mini"),
              heavy |-> IF recognized THEN selectedModel ELSE ModelName("openai", "gpt-5")]
        [] OTHER ->
             [light |-> env.LIGHT_TIER_MODEL_DEFAULT,
              tooling |-> env.TOOLING_TIER_MODEL_DEFAULT,
              heavy |-> IF recognized THEN selectedModel ELSE env.HEAVY_TIER_MODEL_DEFAULT]

scoreToolComplexity(tools) ==
  (IF tools.webSearchEnabled THEN 2 ELSE 0)
  + (IF tools.deepSearchEnabled THEN 3 ELSE 0)
  + (IF tools.webSearchEnabled /\ tools.deepSearchEnabled THEN 1 ELSE 0)
  + (IF tools.attachmentCount > 0 THEN 1 ELSE 0)
  + (IF tools.attachmentCount > 1 THEN 1 ELSE 0)
  + (IF tools.attachmentCount > 3 THEN 1 ELSE 0)

\* prompt.score stands for scorePromptLength(prompt) + scoreInstructionComplexity(prompt).
scorePromptComplexity(prompt, tools) ==
  IF prompt.blank THEN 0 ELSE prompt.score + scoreToolComplexity(tools)

toolingThreshold(sensitivity) == clampInt(9 - (sensitivity \div 20), 4, 9)

\* A heavy threshold that grows with the sensitivity.
heavyThresholdRising(sensitivity) == clampInt(7 + (sensitivity \div 10), 7, 17)

heavyThreshold(sensitivity) == clampInt(17 - (sensitivity \div 10), 7, 17)

hasAnyToolingSignals(tools) ==
  tools.webSearchEnabled \/ tools.deepSearchEnabled \/ tools.attachmentCount > 0

\* No bias for deep search.
NoHeavyBias(tools) == 0

heavyBiasForDeepSearch(tools) == IF tools.deepSearchEnabled THEN 2 ELSE 0

\* Math.round of x / 100 for x >= 0
RoundHundredth(x) == (x + 50) \div 100

computeHistoryCompression(tier, historyCompression) ==
  LET compression == clampInt(historyCompression, 0, 100)
      baseWindow == MAX_HISTORY_WINDOW_MESSAGES -
        RoundHundredth((MAX_HISTORY_WINDOW_MESSAGES - MIN_HISTORY_WINDOW_MESSAGES) * compression)
      baseSummaryChars == MAX_HISTORY_SUMMARY_CHARS -
        RoundHundredth((MAX_HISTORY_SUMMARY_CHARS - MIN_HISTORY_SUMMARY_CHARS) * compression)
      window == IF tier = "light" THEN baseWindow - 2
                ELSE IF tier = "heavy" THEN baseWindow + 3 ELSE baseWindow
      chars == IF tier = "light" THEN baseSummaryChars - 350
               ELSE IF tier = "heavy" THEN baseSummaryChars + 550 ELSE baseSummaryChars
  IN  [historyWindowMessages |->
         clampInt(window, MIN_HISTORY_WINDOW_MESSAGES, MAX_HISTORY_WINDOW_MESSAGES),
       historySummaryMaxChars |->
         clampInt(chars, MIN_HISTORY_SUMMARY_CHARS, MAX_HISTORY_SUMMARY_CHARS)]

buildRoutingDecision(latestUserMessage, selectedModel, tools, settings, env) ==
  LET tierModels == pickTierModels(selectedModel, env)
      complexity == scorePromptComplexity(latestUserMessage, tools)
      sensitivity == clampInt(settings.routingSensitivity, 0, 100)
      tier == IF complexity >= heavyThreshold(sensitivity) - heavyBiasForDeepSearch(tools)
                THEN "heavy"
                ELSE IF hasAnyToolingSignals(tools) \/ complexity >= toolingThreshold(sensitivity)
                       THEN "tooling"
                       ELSE "light"
      model == IF tier = "tooling" THEN tierModels.tooling
               ELSE IF tier = "heavy" THEN tierModels.heavy ELSE tierModels.light
      heavyModel == tierModels.heavy
      maxTokens == IF tier = "tooling" THEN clampInt(TOOLING_TIER_MAX_TOKENS, 400, 8000)
                   ELSE IF tier = "heavy" THEN clampInt(HEAVY_TIER_MAX_TOKENS, 400, 8000)
                   ELSE clampInt(LIGHT_TIER_MAX_TOKENS, 400, 8000)
      history == computeHistoryCompression(tier, settings.historyCompression)
  IN  [tier |-> tier, model |-> model, heavyModel |-> heavyModel,
       allowEscalation |-> (tier = "light" /\ heavyModel # model),
       maxTokens |-> maxTokens,
       historyWindowMessages |-> history.historyWindowMessages,
       historySummaryMaxChars |-> history.historySummaryMaxChars]

SeqHas(seq, x) == \E i \in 1..Len(seq) : seq[i] = x

\* The for loop over the candidates: skip what CHAT_MODELS does not list,
\* keep the first occurrence, stop at two.
RECURSIVE DedupeLoop(_, _, _)
DedupeLoop(candidates, i, deduped) ==
  IF i > Len(candidates) THEN deduped
  ELSE IF candidates[i] \notin CHAT_MODELS THEN DedupeLoop(candidates, i + 1, deduped)
  ELSE LET pushed == IF SeqHas(deduped, candidates[i]) THEN deduped ELSE Append(deduped, candidates[i])
       IN  IF Len(pushed) >= 2 THEN pushed ELSE DedupeLoop(candidates, i + 1, pushed)

Candidates(routingDecision, env) ==
  LET first == <<routingDecision.model>>
      second == IF routingDecision.allowEscalation /\ routingDecision.heavyModel # routingDecision.model
                  THEN Append(first, routingDecision.heavyModel) ELSE first
  IN  IF env.ENABLE_MODEL_FAILOVER /\ Len(second) < 2 /\ RELIABLE_FALLBACK_MODEL \in CHAT_MODELS
        THEN Append(second, RELIABLE_FALLBACK_MODEL) ELSE second

\* The candidates as they are, without the loop that drops repetitions.
ChainWithoutDedupe(routingDecision, env) == Candidates(routingDecision, env)

getModelExecutionChain(routingDecision, env) ==
  LET deduped == DedupeLoop(Candidates(routingDecision, env), 1, <<>>)
  IN  IF Len(deduped) = 0 THEN <<DEFAULT_MODEL>> ELSE deduped

TierRank(tier) == CASE tier = "light" -> 1 [] tier = "tooling" -> 2 [] tier = "heavy" -> 3 [] OTHER -> 0

Prompts == {[blank |-> TRUE, score |-> 0]} \cup [blank : {FALSE}, score : 0..MaxPromptScore]

ToolSignals == [webSearchEnabled : BOOLEAN, deepSearchEnabled : BOOLEAN, attachmentCount : 0..MaxAttachmentCount]

\* A request whose routing decision is built: lines 1626-1636 of the POST handler.
BuildDecision ==
  /\ routing.decision = NoDecision
  /\ LET decision == buildRoutingDecision(routing.latestUserMessage, routing.selectedModel,
                                          routing.tools, routing.settings, routing.env)
     IN  routing' = [routing EXCEPT
           !.decision = decision,
           !.highestTier = IF TierRank(decision.tier) > @ THEN TierRank(decision.tier) ELSE @]
  /\ UNCHANGED RoutingRest

\* The dashboard control is raised by one and the same prompt is sent again.
RaiseSensitivity ==
  /\ routing.decision # NoDecision
  /\ routing.settings.routingSensitivity < MaxSensitivity
  /\ routing' = [routing EXCEPT
       !.settings.routingSensitivity = @ + 1,
       !.decision = NoDecision,
       !.chain = <<>>]
  /\ UNCHANGED RoutingRest

\* execute(): const modelChain = getModelExecutionChain(routingDecision).
GetChain ==
  /\ routing.decision # NoDecision
  /\ routing.chain = <<>>
  /\ routing' = [routing EXCEPT !.chain = getModelExecutionChain(routing.decision, routing.env)]
  /\ UNCHANGED RoutingRest

RoutingInit ==
  /\ CoreIdle
  /\ AtomicFsIdle
  /\ ToolContextIdle
  /\ RelayIdle
  /\ KnobsIdle
  /\ \E prompt \in Prompts, tools \in ToolSignals :
       routing = [latestUserMessage |-> prompt,
                  selectedModel |-> DEFAULT_MODEL,
                  tools |-> tools,
                  settings |-> [routingSensitivity |-> 0, historyCompression |-> DefaultCompression],
                  env |-> DefaultEnv,
                  decision |-> NoDecision,
                  chain |-> <<>>,
                  highestTier |-> 0]

RoutingNext == BuildDecision \/ RaiseSensitivity

SpecRouting == RoutingInit /\ [][RoutingNext]_vars

\* selectedModel is the requested model when ALLOWED_MODELS lists it, else
\* process.env.DEDALUS_MODEL, which may be any name, else DEFAULT_MODEL.
ChainInit ==
  /\ CoreIdle
  /\ AtomicFsIdle
  /\ ToolContextIdle
  /\ RelayIdle
  /\ KnobsIdle
  /\ \E prompt \in {[blank |-> FALSE, score |-> 0], [blank |-> FALSE, score |-> MaxPromptScore]},
        web \in BOOLEAN, selectedModel \in ALLOWED_MODELS \cup UnlistedModels, env \in Envs :
       routing = [latestUserMessage |-> prompt,
                  selectedModel |-> selectedModel,
                  tools |-> [NoTools EXCEPT !.webSearchEnabled = web],
                  settings |-> [routingSensitivity |-> DefaultSensitivity, historyCompression |-> DefaultCompression],
                  env |-> env,
                  decision |-> NoDecision,
                  chain |-> <<>>,
                  highestTier |-> 0]

ChainNext == BuildDecision \/ GetChain

SpecChain == ChainInit /\ [][ChainNext]_vars

(***************************************************************************)
(* The carbon settings of a chat request: the dashboard controls, the      *)
(* knob lock of a user, and what the client submits.                       *)
(***************************************************************************)
KnobsRest == <<coreVars, atomicFs, routing, toolContext, relay>>

UserIds == {DEFAULT_USER_ID, "u2"}

RawNumbers ==
  {NoNumber, [type |-> "number", finite |-> FALSE, value |-> 0]}
    \cup [type : {"number"}, finite : {TRUE}, value : {30, 150}]

\* What a client can put in requestBody.carbonSettings.
RawCarbonSettings ==
  {NoCarbonSettings} \cup
    [object : {TRUE}, routingSensitivity : RawNumbers, historyCompression : RawNumbers]

\* typeof x === "number" ? clampInt(x, 0, 100) : fallback; clampInt gives
\* min for a number that is not finite.
sanitizeSetting(raw, fallback) ==
  IF raw.type # "number" THEN fallback
  ELSE IF ~raw.finite THEN 0 ELSE clampInt(raw.value, 0, 100)

sanitizeCarbonRoutingSettings(raw, fallback) ==
  IF ~raw.object THEN fallback
  ELSE [routingSensitivity |-> sanitizeSetting(raw.routingSensitivity, fallback.routingSensitivity),
        historyCompression |-> sanitizeSetting(raw.historyCompression, fallback.historyCompression)]

areKnobsLockedForUser(controls, userId) == userId \in controls.lockedUserKnobs

adminCarbonSettings(controls) ==
  [routingSensitivity |-> controls.routingSensitivity,
   historyCompression |-> controls.historyCompression]

\* Carbon settings taken from the request whatever the knob lock says.
carbonSettingsIgnoringLock(controls, userId, raw) ==
  sanitizeCarbonRoutingSettings(raw, adminCarbonSettings(controls))

\* const carbonSettings = knobsLocked ? adminCarbonSettings : sanitize...
carbonSettings(controls, userId, raw) ==
  IF areKnobsLockedForUser(controls, userId)
  THEN adminCarbonSettings(controls)
  ELSE sanitizeCarbonRoutingSettings(raw, adminCarbonSettings(controls))

KnobsDecision(settings) ==
  buildRoutingDecision(knobs.latestUserMessage, DEFAULT_MODEL, knobs.tools, settings, DefaultEnv)

\* A chat POST of the user: its carbon settings and its routing decision.
KnobsPost ==
  /\ ~knobs.second.served
  /\ \E raw \in RawCarbonSettings :
       LET answer == [served |-> TRUE, raw |-> raw,
                      decision |-> KnobsDecision(carbonSettings(knobs.controls, knobs.userId, raw))]
       IN knobs' = IF ~knobs.first.served
                   THEN [knobs EXCEPT !.first = answer]
                   ELSE [knobs EXCEPT !.second = answer]
  /\ UNCHANGED KnobsRest

\* upsertUserDashboardControls with lockKnobs: the admin locks or unlocks a user.
UpsertLockKnobs ==
  \E userId \in UserIds, lockKnobs \in BOOLEAN :
    /\ knobs' = [knobs EXCEPT
         !.controls.lockedUserKnobs = IF lockKnobs THEN @ \cup {userId} ELSE @ \ {userId},
         !.first = NoServed,
         !.second = NoServed]
    /\ UNCHANGED KnobsRest

KnobsInit ==
  /\ CoreIdle
  /\ AtomicFsIdle
  /\ RoutingIdle
  /\ ToolContextIdle
  /\ RelayIdle
  /\ \E prompt \in {[blank |-> FALSE, score |-> 6], [blank |-> FALSE, score |-> 12]},
        web \in BOOLEAN, sensitivity \in {0, DefaultSensitivity, MaxSensitivity},
        compression \in {0, DefaultCompression}, userId \in UserIds :
       knobs = [controls |-> [routingSensitivity |-> sensitivity,
                              historyCompression |-> compression,
                              lockedUserKnobs |-> {}],
                userId |-> userId,
                latestUserMessage |-> prompt,
                tools |-> [NoTools EXCEPT !.webSearchEnabled = web],
                first |-> NoServed,
                second |-> NoServed]

KnobsNext == KnobsPost \/ UpsertLockKnobs

SpecKnobs == KnobsInit /\ [][KnobsNext]_vars

(***************************************************************************)
(* Tool-context building of the POST handler.                              *)
(***************************************************************************)
ToolsRest == <<coreVars, atomicFs, routing, relay, knobs>>

ToolRequests == [attachments : BOOLEAN, webSearchEnabled : BOOLEAN, deepSearchEnabled : BOOLEAN]

\* A request reaches the tool stage: let promptForModel = latestUserMessage.
ToolsStart ==
  /\ toolContext.pc \in {"idle", "streaming"}
  /\ toolContext.requests < MaxToolRequests
  /\ \E r \in ToolRequests :
       toolContext' = [toolContext EXCEPT
         !.pc = "ocr", !.request = r, !.promptForModel = <<"latestUserMessage">>,
         !.threw = {}, !.response = 0, !.requests = @ + 1]
  /\ UNCHANGED ToolsRest

\* if (uploadedOcrAttachments.length > 0) try { buildOcrPromptContext } catch { ... }
OcrContext ==
  /\ toolContext.pc = "ocr"
  /\ IF toolContext.request.attachments
       THEN \E outcome \in {"context", "throws"} :
              toolContext' = [toolContext EXCEPT
                !.pc = "web",
                !.promptForModel = IF outcome = "context"
                                     THEN <<"latestUserMessage", "attached_ocr_context">>
                                     ELSE <<"latestUserMessage", "ocr_unavailable">>,
                !.threw = IF outcome = "throws" THEN @ \cup {"ocr"} ELSE @]
       ELSE toolContext' = [toolContext EXCEPT !.pc = "web"]
  /\ UNCHANGED ToolsRest

\* One of the two search blocks: the cached context when the cache holds one that
\* has not expired, else the builder, whose result is cached when it is not blank.
SearchContext(tool, enabled, next, rethrows) ==
  IF ~enabled
    THEN toolContext' = [toolContext EXCEPT !.pc = next]
    ELSE \/ /\ tool \in toolContext.toolContextCache
            /\ toolContext' = [toolContext EXCEPT
                 !.pc = next, !.promptForModel = Append(@, tool \o "_context")]
         \/ \E outcome \in {"context", "blank", "throws"} :
              toolContext' = [toolContext EXCEPT
                !.pc = IF outcome = "throws" /\ rethrows THEN "done" ELSE next,
                !.response = IF outcome = "throws" /\ rethrows THEN 500 ELSE @,
                !.toolContextCache =
                   IF outcome = "context" THEN @ \cup {tool} ELSE @ \ {tool},
                !.promptForModel =
                   CASE outcome = "context" -> Append(@, tool \o "_context")
                     [] outcome = "blank" -> @
                     [] outcome = "throws" -> IF rethrows THEN @ ELSE Append(@, tool \o "_unavailable"),
                !.threw = IF outcome = "throws" THEN @ \cup {tool} ELSE @]

\* The web search block with a catch that throws the error again.
WebContextRethrowing ==
  /\ toolContext.pc = "web"
  /\ SearchContext("web_search", toolContext.request.webSearchEnabled, "deep", TRUE)
  /\ UNCHANGED ToolsRest

WebContext ==
  /\ toolContext.pc = "web"
  /\ SearchContext("web_search", toolContext.request.webSearchEnabled, "deep", FALSE)
  /\ UNCHANGED ToolsRest

DeepContext ==
  /\ toolContext.pc = "deep"
  /\ SearchContext("deep_search", toolContext.request.deepSearchEnabled, "invoke", FALSE)
  /\ UNCHANGED ToolsRest

\* createUIMessageStream: execute runs with promptForModel.
CreateStream ==
  /\ toolContext.pc = "invoke"
  /\ toolContext' = [toolContext EXCEPT !.pc = "streaming"]
  /\ UNCHANGED ToolsRest

ToolsInit == LockInit

ToolsNext == ToolsStart \/ OcrContext \/ WebContext \/ DeepContext \/ CreateStream

SpecTools == ToolsInit /\ [][ToolsNext]_vars

(***************************************************************************)
(* Streaming relay.  The steps of execute() and of drainTokens() that run  *)
(* without waiting for a timer or for the subprocess are microtasks: they  *)
(* run before the event loop serves the next timer, abort or subprocess    *)
(* event.                                                                  *)
(***************************************************************************)
RelayRest == <<coreVars, atomicFs, routing, toolContext, knobs>>

STREAM_TOKENS_PER_FLUSH == 2

ErrorKinds == {"retryable", "nostream", "other"}

\* isRetryableDedalusServerError / shouldRetryWithoutScriptStreaming on the error message.
isRetryableDedalusServerError(error) == error = "retryable"
shouldRetryWithoutScriptStreaming(error) == error = "nostream"

MicrotaskPending ==
  \/ relay.main \in {"spawn", "settled"}
  \/ relay.drain = "check"
  \/ relay.main = "awaitDrain" /\ relay.drain = "done"

\* notifyDrain() applied to the relay record r.
notifyDrain(r) ==
  IF r.wakeDrain = "null" THEN r
  ELSE [r EXCEPT !.wakeDrain = "null", !.drain = "check"]

\* enqueueText(text) applied to the relay record r; text is its token sequence.
enqueueText(r, text) ==
  IF text = <<>> THEN r
  ELSE notifyDrain([r EXCEPT !.pendingTokens = @ \o text, !.enqueued = @ \o text])

\* streamFromAskQuestionScript up to its promise: spawn, addEventListener("abort", onAbort).
\* A listener added to a signal that has already aborted is never called.
Spawn ==
  /\ relay.main = "spawn"
  /\ relay' = [relay EXCEPT
       !.main = "awaitChild",
       !.child = [NoChild EXCEPT !.state = "running", !.armed = ~relay.aborted],
       !.attempted = @ \cup {relay.modelCandidates[relay.candidate]},
       !.spawns = Append(@, [candidate |-> relay.candidate, attempt |-> relay.attempt,
                             streaming |-> relay.useStreaming, cause |-> relay.spawnCause])]
  /\ UNCHANGED RelayRest

\* stdout line {type: "token"}: onToken(token); assistantText += token.
\* The text of one token event is one or two streaming tokens.
ChildToken ==
  /\ ~MicrotaskPending
  /\ relay.child.state = "running"
  /\ \E n \in 1..2 :
       /\ relay.tokens + n <= MaxTokens
       /\ LET token == [i \in 1..n |-> relay.tokens + i]
              r == [relay EXCEPT
                      !.sawTokenEvent = TRUE,
                      !.tokens = @ + n,
                      !.child.assistantText = @ \o token,
                      !.child.tokenText = @ \o token]
          IN  relay' = enqueueText(r, token)
  /\ UNCHANGED RelayRest

\* stdout line {type: "final"}: a text that is not empty becomes assistantText.
ChildFinal ==
  /\ ~MicrotaskPending
  /\ relay.child.state = "running"
  /\ ~relay.child.finalSeen
  /\ \E text \in {<<>>, <<0>>, relay.child.tokenText} :
       relay' = [relay EXCEPT
         !.child.finalSeen = TRUE,
         !.child.assistantText = IF Len(text) > 0 THEN text ELSE @]
  /\ UNCHANGED RelayRest

\* stdout line {type: "error"}.
ChildError ==
  /\ ~MicrotaskPending
  /\ relay.child.state = "running"
  /\ relay.child.reportedError = ""
  /\ \E kind \in ErrorKinds : relay' = [relay EXCEPT !.child.reportedError = kind]
  /\ UNCHANGED RelayRest

\* child.on("close"): the promise of streamFromAskQuestionScript settles.
\* A subprocess killed by SIGTERM closes with code null.
ChildClose ==
  /\ ~MicrotaskPending
  /\ relay.child.state \in {"running", "killed"}
  /\ \E code \in {0, 1}, stderr \in ErrorKinds :
       /\ relay.child.state = "killed" => code = 1 /\ stderr = "other"
       /\ code = 0 => stderr = "other"
       /\ relay' = [relay EXCEPT
            !.main = "settled",
            !.child.state = "none",
            !.child.armed = FALSE,
            !.settled = IF relay.child.reportedError # "" THEN relay.child.reportedError
                        ELSE IF code # 0 THEN stderr
                        ELSE IF relay.child.assistantText = <<>> THEN "nostream"
                        ELSE "ok",
            !.ranOnAfterAbort = @ \/ (relay.aborted /\ relay.child.state = "running")]
  /\ UNCHANGED RelayRest

\* The finally block up to await drainPromise.
EnterFinally(r) ==
  notifyDrain([r EXCEPT !.main = "awaitDrain", !.streamClosed = TRUE,
                        !.pendingAtClose = Len(r.pendingTokens)])

\* A candidate loop that tries the model again after any error.
AfterFailureRetryingAnyError(r, error) ==
  LET maxAttempts == IF r.failover /\ r.candidate = 1 THEN 2 ELSE 1
      failed == [r EXCEPT !.lastModelError = error, !.settled = "", !.useStreaming = TRUE,
                          !.spawnCause = error]
  IN  IF r.attempt < maxAttempts
        THEN IF r.aborted
               THEN [failed EXCEPT !.main = "spawn", !.attempt = @ + 1]
               ELSE [failed EXCEPT !.main = "backoff"]
        ELSE IF r.candidate < Len(r.modelCandidates)
               THEN [failed EXCEPT !.main = "spawn", !.candidate = @ + 1, !.attempt = 1]
               ELSE EnterFinally(failed)

\* The candidate loop after an attempt failed with error.
AfterFailure(r, error) ==
  LET maxAttempts == IF r.failover /\ r.candidate = 1 THEN 2 ELSE 1
      failed == [r EXCEPT !.lastModelError = error, !.settled = "", !.useStreaming = TRUE,
                          !.spawnCause = error]
  IN  IF isRetryableDedalusServerError(error) /\ r.attempt < maxAttempts
        THEN IF r.aborted
               THEN [failed EXCEPT !.main = "spawn", !.attempt = @ + 1]
               ELSE [failed EXCEPT !.main = "backoff"]
        ELSE IF r.candidate < Len(r.modelCandidates)
               THEN [failed EXCEPT !.main = "spawn", !.candidate = @ + 1, !.attempt = 1]
               ELSE EnterFinally(failed)

\* execute() after the promise of streamFromAskQuestionScript settled.
AfterChild ==
  /\ relay.main = "settled"
  /\ relay' =
       IF relay.settled = "ok"
         THEN LET model == relay.modelCandidates[relay.candidate]
                  text == relay.child.assistantText
                  r == [relay EXCEPT
                          !.settled = "",
                          !.modelUsedForResponse = model,
                          !.assistantText = text,
                          !.streamCompleted = TRUE,
                          !.succeeded = [text |-> text, model |-> model,
                                         tokenText |-> relay.child.tokenText]]
              IN  EnterFinally(IF ~relay.sawTokenEvent THEN enqueueText(r, text) ELSE r)
         ELSE IF relay.useStreaming /\ shouldRetryWithoutScriptStreaming(relay.settled)
           THEN [relay EXCEPT !.main = "spawn", !.settled = "", !.useStreaming = FALSE,
                              !.spawnCause = relay.settled]
           ELSE AfterFailure(relay, relay.settled)
  /\ UNCHANGED RelayRest

\* The timer of waitFor(300 * attempt, req.signal) fires.
BackoffTimer ==
  /\ ~MicrotaskPending
  /\ relay.main = "backoff"
  /\ relay' = [relay EXCEPT !.main = "spawn", !.attempt = @ + 1]
  /\ UNCHANGED RelayRest

Min(a, b) == IF a < b THEN a ELSE b

\* One round of the while loop of drainTokens that leaves the loop as soon as
\* the stream is closed.
DrainStepStoppingAtClose ==
  /\ relay.drain = "check"
  /\ relay' =
       IF relay.streamClosed THEN [relay EXCEPT !.drain = "done"]
       ELSE IF relay.pendingTokens = <<>> THEN [relay EXCEPT !.drain = "waitEmpty", !.wakeDrain = "plain"]
       ELSE [relay EXCEPT !.drain = "waitSignal", !.wakeDrain = "resolver"]
  /\ UNCHANGED RelayRest

\* One round of the while loop of drainTokens, up to its next await.
\* waitForDrainSignal returns at once when the signal has aborted: the round
\* changes nothing but the parity of the rounds made.
DrainStep ==
  /\ relay.drain = "check"
  /\ relay' =
       IF relay.streamClosed /\ relay.pendingTokens = <<>>
         THEN [relay EXCEPT !.drain = "done"]
       ELSE IF relay.pendingTokens = <<>>
         THEN [relay EXCEPT !.drain = "waitEmpty", !.wakeDrain = "plain"]
       ELSE IF ~relay.streamClosed /\ Len(relay.pendingTokens) < STREAM_TOKENS_PER_FLUSH
         THEN IF relay.aborted
                THEN [relay EXCEPT !.rounds = 1 - @]
                ELSE [relay EXCEPT !.drain = "waitSignal", !.wakeDrain = "resolver"]
       ELSE LET chunkSize == IF relay.streamClosed
                               THEN Min(STREAM_TOKENS_PER_FLUSH, Len(relay.pendingTokens))
                               ELSE STREAM_TOKENS_PER_FLUSH
                rest == SubSeq(relay.pendingTokens, chunkSize + 1, Len(relay.pendingTokens))
            IN  [relay EXCEPT
                   !.pendingTokens = rest,
                   !.written = Append(@, [type |-> "text-delta",
                                          delta |-> SubSeq(relay.pendingTokens, 1, chunkSize)]),
                   !.drain = IF rest # <<>> /\ ~relay.aborted THEN "delay" ELSE "check",
                   !.rounds = 0]
  /\ UNCHANGED RelayRest

\* The 16 ms timer of waitForDrainSignal fires.
DrainSignalTimer ==
  /\ ~MicrotaskPending
  /\ relay.drain = "waitSignal"
  /\ relay' = [relay EXCEPT !.drain = "check", !.wakeDrain = "null"]
  /\ UNCHANGED RelayRest

\* The timer of waitFor(STREAM_DELTA_DELAY_MS, req.signal) fires.
DeltaDelayTimer ==
  /\ ~MicrotaskPending
  /\ relay.drain = "delay"
  /\ relay' = [relay EXCEPT !.drain = "check"]
  /\ UNCHANGED RelayRest

\* req.signal aborts: the listeners that are registered run.
AbortSignal ==
  /\ ~MicrotaskPending
  /\ ~relay.aborted
  /\ relay.main \in {"awaitChild", "backoff", "awaitDrain"}
  /\ relay' = [relay EXCEPT
       !.aborted = TRUE,
       !.child.state = IF @ = "running" /\ relay.child.armed THEN "killed" ELSE @,
       !.drain = IF @ \in {"waitSignal", "delay"} THEN "check" ELSE @,
       !.wakeDrain = IF relay.drain = "waitSignal" THEN "null" ELSE @,
       !.main = IF @ = "backoff" THEN "spawn" ELSE @,
       !.attempt = IF relay.main = "backoff" THEN @ + 1 ELSE @]
  /\ UNCHANGED RelayRest

\* The finally block after drainPromise, and the events after it.
Finish ==
  /\ relay.main = "awaitDrain"
  /\ relay.drain = "done"
  /\ relay' = [relay EXCEPT
       !.main = "done",
       !.persistedText = IF relay.streamCompleted THEN relay.assistantText ELSE @,
       !.released = TRUE,
       !.written = IF relay.streamCompleted
                     THEN @ \o <<[type |-> "data-carbon-stats", delta |-> <<>>],
                                 [type |-> "finish", delta |-> <<>>]>>
                     ELSE Append(@, [type |-> "error", delta |-> <<>>])]
  /\ UNCHANGED RelayRest

RelayInit ==
  /\ CoreIdle
  /\ AtomicFsIdle
  /\ RoutingIdle
  /\ ToolContextIdle
  /\ KnobsIdle
  /\ \E modelCandidates \in {<<RoutedModel>>, <<RoutedModel, FallbackModel>>},
        failover \in BOOLEAN, aborted \in BOOLEAN :
       relay = RelayStart(modelCandidates, failover, aborted)

RelayNext ==
  \/ Spawn
  \/ ChildToken
  \/ ChildFinal
  \/ ChildError
  \/ ChildClose
  \/ AfterChild
  \/ BackoffTimer
  \/ DrainStep
  \/ DrainSignalTimer
  \/ DeltaDelayTimer
  \/ AbortSignal
  \/ Finish

SpecRelay == RelayInit /\ [][RelayNext]_vars

SpecRelayFair == SpecRelay /\ WF_vars(RelayNext)

IsPrefix(s, t) == Len(s) <= Len(t) /\ SubSeq(t, 1, Len(s)) = s

\* s can be obtained from t by deleting elements.
RECURSIVE IsSubsequence(_, _)
IsSubsequence(s, t) ==
  IF s = <<>> THEN TRUE
  ELSE IF t = <<>> THEN FALSE
  ELSE IF Head(s) = Head(t) THEN IsSubsequence(Tail(s), Tail(t))
  ELSE IsSubsequence(s, Tail(t))

SnapshotDone == lastCall.op \in {"persist", "repeat"}
CallIncoming == ToStoredMessages(lastCall.raw, lastCall.k)
CallAfter == files[lastCall.conv].msgs
CallAppended == SubSeq(CallAfter, Len(lastCall.before) + 1, Len(CallAfter))

\* C5: persistPromptSnapshot keeps every stored message, in the same order
\* and with the same text, and appends after them, in incoming order, the
\* incoming messages whose ids were not stored before.
C5_ExistingKeptNewAppended ==
  SnapshotDone =>
    /\ IsPrefix(lastCall.before, CallAfter)
    /\ IsSubsequence(CallAppended,
                     SelectSeq(CallIncoming, LAMBDA m : m.id \notin Ids(lastCall.before)))
    /\ \A i \in 1..Len(CallIncoming) :
         CallIncoming[i].id \notin Ids(lastCall.before) => CallIncoming[i].id \in Ids(CallAppended)

C5_Witness ==
  /\ SnapshotDone
  /\ Len(lastCall.before) = 2
  /\ \E i \in 1..Len(CallIncoming) :
       /\ CallIncoming[i].id = lastCall.before[1].id
       /\ CallIncoming[i].text # lastCall.before[1].text
  /\ Len(CallAppended) = 1

CarryIds(messages) == \A i \in 1..Len(messages) : messages[i].id # ""

\* C7: a second persistPromptSnapshot call with the same messages carrying
\* the same ids leaves no duplicate message id and the message order of the
\* first call.
C7_RepeatIsIdempotent ==
  (lastCall.op = "repeat" /\ CarryIds(lastCall.raw)) =>
     /\ NoDuplicateIds(CallAfter)
     /\ CallAfter = lastCall.before

\* C8: the ids of the stored messages of a bundle are pairwise distinct.
C8_UniqueMessageIds == \A c \in DOMAIN files : NoDuplicateIds(files[c].msgs)

\* C1: at most one caller holds the lock of a conversation id at a time.
C1_MutualExclusion == \A c \in ConvIds : Cardinality(Holders(c)) <= 1

C1_Witness ==
  \E n, m \in 1..Len(acqs) :
    /\ n < m /\ acqs[n].conv = acqs[m].conv /\ acqs[n].owner # acqs[m].owner
    /\ acqs[n].released /\ Holds(m) /\ acqs[m].prev # 0

GrantedInCallOrder ==
  \A n, m \in 1..Len(acqs) :
    (n < m /\ acqs[n].conv = acqs[m].conv /\ acqs[m].returned) => acqs[n].returned

\* C2: waiters on one conversation id are granted the lock in the order of
\* their acquireConversationLock calls, and every waiter is eventually
\* granted the lock when every holder calls its release function.
C2_FifoAndProgress ==
  /\ []GrantedInCallOrder
  /\ \A p \in Callers : (pc[p] = "waiting") ~> (pc[p] = "holding")

C2_Witness ==
  \E n, m, k \in 1..Len(acqs) :
    /\ acqs[m].prev = n /\ acqs[k].prev = m
    /\ acqs[n].released /\ Holds(m) /\ ~acqs[k].returned
    /\ pc[acqs[k].owner] = "waiting"

PostFinished(p) == pc[p] \in {"finish", "done"} /\ request[p].acq # 0

\* C3: a chat POST that acquired the conversation lock calls its release
\* function exactly once on each of its paths, and once the request has
\* finished it no longer holds the lock.
C3_ReleasedExactlyOnce ==
  \A p \in Posts :
    /\ releaseCalls[p] <= 1
    /\ PostFinished(p) =>
         /\ releaseCalls[p] = 1
         /\ held[p] = 0
         /\ acqs[request[p].acq].released

C3_Witness ==
  \E p, q \in Posts :
    /\ pc[p] = "done" /\ response[p] = 200 /\ stream[p].completed /\ releaseCalls[p] = 1
    /\ pc[q] = "done" /\ response[q] = 400 /\ request[q].acq # 0 /\ releaseCalls[q] = 1

InWriteCycle(p) == pc[p] \in {"persistSave", "finPersistSave", "appendSave", "renameSave"}

\* C4: read-modify-write cycles on one conversation's bundle (prompt
\* snapshot, assistant append, rename) never overlap, and no completed write
\* is lost: the bundle keeps every message id written and the latest name.
C4_SerializedBundleWrites ==
  /\ \A p, q \in Posts \cup Patchers :
       (p # q /\ InWriteCycle(p) /\ InWriteCycle(q)) => request[p].conv # request[q].conv
  /\ \A c \in DOMAIN files :
       /\ persisted[c] \subseteq Ids(files[c].msgs)
       /\ renamed[c] # "" => files[c].name = renamed[c]

InSnapshotCycle(p) == pc[p] \in {"persistSave", "finPersistSave"}

\* C6: the persistPromptSnapshot calls of two concurrent requests for one
\* conversation id never interleave, and the bundle contains the message ids
\* of both calls.
C6_ConcurrentSnapshotsKeepUnion ==
  \A p, q \in Posts :
    /\ (p # q /\ InSnapshotCycle(p) /\ InSnapshotCycle(q)) => request[p].conv # request[q].conv
    /\ (request[p].saved /\ FileExists(request[p].conv)) =>
         Ids(ToStoredMessages(request[p].messages, 0)) \subseteq Ids(files[request[p].conv].msgs)

C6_Witness ==
  \E p, q \in Posts :
    /\ p # q /\ request[p].saved /\ request[q].saved
    /\ request[p].conv = request[q].conv
    /\ request[p].messages # request[q].messages
    /\ acqs[request[q].acq].prev = request[p].acq

RefusesLastConversation ==
  \A p \in Deleters :
    (pc[p] = "deleteList" /\ pc'[p] # "deleteList" /\ DOMAIN files = {uiCall[p].conv}) =>
      (response'[p] = 400 /\ pc'[p] = "idle" /\ files' = files)

ConversationRemains == (\A p \in Deleters : pc[p] = "idle") => DOMAIN files # {}

\* C9: deleteConversationForUi called on the only remaining conversation
\* answers with the last-conversation error and removes no file, and when
\* the delete calls made have returned at least one conversation file exists.
C9_LastConversationKept == [][RefusesLastConversation]_vars /\ []ConversationRemains

C9_Witness ==
  \E p \in Deleters :
    /\ pc[p] = "idle" /\ response[p] = 400
    /\ DOMAIN files = {uiCall[p].conv}
    /\ 1 \notin DOMAIN files

PastSnapshotLoad(p) ==
  pc[p] \in {"persistSave", "validate", "prepare", "streaming", "finally", "finPersistLoad",
             "finPersistSave", "appendLoad", "appendSave", "finRelease", "finish"}

AnsweredNotFound ==
  \A p \in Posts :
    /\ (pc[p] = "done" /\ response[p] = 404) =>
         /\ ~FileExists(request[p].conv)
         /\ held[p] = 0
         /\ acqs[request[p].acq].released
    /\ PastSnapshotLoad(p) => FileExists(request[p].conv)
    /\ (pc[p] = "done" /\ request[p].acq # 0 /\ ~FileExists(request[p].conv)) =>
         response[p] \in {404, 429, 500}

NoBundleFileCreated == DOMAIN files' \subseteq DOMAIN files

\* C10: a chat POST for a conversation id whose bundle file is absent is
\* answered 404 with the lock released, no chat POST gets past the prompt
\* snapshot without the file, and no step of a chat POST adds a bundle file.
C10_NoImplicitCreation == []AnsweredNotFound /\ [][NoBundleFileCreated]_vars

C10_Witness ==
  \E p \in Posts :
    /\ pc[p] = "done" /\ response[p] = 404 /\ releaseCalls[p] = 1
    /\ request[p].conv = 2 /\ request[p].messages # <<>>

TargetContent == atomicFs.inodes[atomicFs.target]

RenameFailureKeepsTarget ==
  \A w \in Writers :
    (atomicFs.wpc[w] = "rename" /\ atomicFs'.wpc[w] \in {"cleanup"}) => TargetContent' = TargetContent

ReaderSeesCompleteBundle ==
  /\ atomicFs.rpc = "done" => CompleteContent(atomicFs.raw)
  /\ TargetContent.len = MaxChunks

\* C11: a reader of a bundle file during concurrent saveBundle writes gets
\* the complete content of the previous bundle or of one write, the file the
\* path names is never partially written, and a failing rename leaves the
\* target file as it was.
C11_AtomicReplace == []ReaderSeesCompleteBundle /\ [][RenameFailureKeepsTarget]_vars

C11_Witness ==
  /\ atomicFs.rpc = "done" /\ atomicFs.raw[1] # 0
  /\ \E w \in Writers : atomicFs.wpc[w] = "writing" /\ atomicFs.inodes[atomicFs.tempPath[w]].len = 1
  /\ \E w \in Writers : atomicFs.wpc[w] = "cleanup"

SpecClamp(v, lo, hi) == IF v < lo THEN lo ELSE IF v > hi THEN hi ELSE v

Routed == routing.decision # NoDecision

\* C12: for fixed prompt complexity and tool signals, raising routingSensitivity
\* over 0..100 never lowers the chosen tier: the tier chosen at the current
\* sensitivity is the highest tier chosen at any lower sensitivity, so a prompt
\* routed to heavy at s is routed to heavy at every s' >= s.
C12_RoutingMonotonicity ==
  Routed => TierRank(routing.decision.tier) = routing.highestTier

C12_Witness ==
  /\ Routed
  /\ routing.settings.routingSensitivity = MaxSensitivity
  /\ routing.decision.tier = "heavy"
  /\ ~routing.tools.deepSearchEnabled
  /\ scorePromptComplexity(routing.latestUserMessage, routing.tools) < 17

SpecTier(c, s, tools) ==
  IF c >= SpecClamp(17 - (s \div 10), 7, 17) - (IF tools.deepSearchEnabled THEN 2 ELSE 0)
    THEN "heavy"
    ELSE IF \/ tools.webSearchEnabled \/ tools.deepSearchEnabled \/ tools.attachmentCount > 0
            \/ c >= SpecClamp(9 - (s \div 20), 4, 9)
           THEN "tooling"
           ELSE "light"

\* C13: for every complexity score c, sensitivity s in 0..100 and tool signals,
\* buildRoutingDecision picks heavy iff c >= clamp(17 - floor(s/10), 7, 17) - (2 if
\* deep search is enabled, else 0); otherwise tooling iff some tool signal is
\* present or c >= clamp(9 - floor(s/20), 4, 9); otherwise light.
C13_TierFormula ==
  Routed =>
    routing.decision.tier =
      SpecTier(scorePromptComplexity(routing.latestUserMessage, routing.tools),
               routing.settings.routingSensitivity, routing.tools)

\* Deep search alone lifts a prompt over the lowered heavy threshold.
C13_Witness ==
  /\ Routed
  /\ routing.decision.tier = "heavy"
  /\ routing.tools.deepSearchEnabled
  /\ scorePromptComplexity(routing.latestUserMessage, routing.tools)
       < SpecClamp(17 - (routing.settings.routingSensitivity \div 10), 7, 17)

Chained == Routed /\ routing.chain # <<>>

ChainWellFormed ==
  /\ Len(routing.chain) \in {1, 2}
  /\ \A i \in 1..Len(routing.chain) : routing.chain[i] \in CHAT_MODELS
  /\ Len(routing.chain) = 2 => routing.chain[1] # routing.chain[2]

SecondAsStated ==
  Len(routing.chain) = 2 =>
    IF routing.decision.allowEscalation
      THEN routing.chain[2] = routing.decision.heavyModel
      ELSE routing.env.ENABLE_MODEL_FAILOVER /\ routing.chain[2] = RELIABLE_FALLBACK_MODEL

\* C14 as stated: for every routing decision, the model execution chain is
\* non-empty, has at most 2 pairwise-distinct recognized chat models, starts with
\* the routed model, and its second element (when present) is the heavy escalation
\* model when escalation is allowed, and otherwise the reliable fallback model
\* only when the failover flag is enabled.
C14_ChainStartsWithRoutedModel ==
  Chained => ChainWellFormed /\ routing.chain[1] = routing.decision.model /\ SecondAsStated

\* The candidates of the decision that CHAT_MODELS lists, in order.
RecognizedCandidates ==
  SelectSeq(Candidates(routing.decision, routing.env), LAMBDA m : m \in CHAT_MODELS)

\* C14 amended: the chain is non-empty and has at most 2 pairwise-distinct
\* recognized chat models.  When the routed model is a recognized chat model the
\* chain starts with it, and its second element (when present) is the heavy
\* escalation model when escalation is allowed, and otherwise the reliable
\* fallback model only when the failover flag is enabled.  When the routed model
\* is not recognized (a tier model named by the environment), the chain leaves it
\* out: it is the recognized one of the other candidates (the heavy model when
\* escalation is allowed, else the fallback model when failover is enabled), and
\* DEFAULT_MODEL alone when there is none.
C14_ChainOfRecognizedCandidates ==
  Chained =>
    /\ ChainWellFormed
    /\ IF routing.decision.model \in CHAT_MODELS
         THEN routing.chain[1] = routing.decision.model /\ SecondAsStated
         ELSE /\ Len(routing.chain) = 1
              /\ routing.chain[1] # routing.decision.model
              /\ routing.chain[1] =
                   IF RecognizedCandidates # <<>> THEN RecognizedCandidates[1] ELSE DEFAULT_MODEL

\* The light tier model the environment names is not a recognized chat model
\* and escalation is allowed: the chain is the heavy model alone.
C14_Witness ==
  /\ Chained
  /\ routing.decision.model \notin CHAT_MODELS
  /\ routing.decision.allowEscalation
  /\ routing.chain = <<routing.decision.heavyModel>>

ToolContextPart(tool) == IF tool = "ocr" THEN "attached_ocr_context" ELSE tool \o "_context"

\* C16: a failure of the OCR, web-search or deep-search context builder never
\* fails the chat request: in every combination of tool failures no error is
\* answered, the request goes on to model invocation, and the prompt given to the
\* model holds the tool-unavailable instruction in place of that tool's output.
C16_ToolFailuresNeverFail ==
  /\ toolContext.response = 0
  /\ toolContext.pc # "done"
  /\ toolContext.pc \in {"invoke", "streaming"} =>
       \A tool \in toolContext.threw :
         /\ SeqHas(toolContext.promptForModel, tool \o "_unavailable")
         /\ ~SeqHas(toolContext.promptForModel, ToolContextPart(tool))

\* All three builders failed and execute runs.
C16_Witness ==
  /\ toolContext.pc = "streaming"
  /\ toolContext.threw = {"ocr", "web_search", "deep_search"}

RECURSIVE DeltasOf(_)
DeltasOf(events) ==
  IF events = <<>> THEN <<>>
  ELSE (IF Head(events).type = "text-delta" THEN Head(events).delta ELSE <<>>) \o DeltasOf(Tail(events))

\* The text the client received: the text-delta events in the order written.
StreamedText == DeltasOf(relay.written)

Written(type) == \E i \in 1..Len(relay.written) : relay.written[i].type = type

ChainModels == {relay.modelCandidates[i] : i \in 1..Len(relay.modelCandidates)}

ErrorOnlyAfterExhaustion ==
  Written("error") => relay.attempted = ChainModels /\ relay.succeeded = NoAttempt

SuccessWithThatAttempt ==
  relay.succeeded # NoAttempt =>
    /\ Written("finish")
    /\ relay.modelUsedForResponse = relay.succeeded.model
    /\ relay.persistedText = relay.succeeded.text
    /\ StreamedText = relay.succeeded.text

\* C15: a model invocation failure aborts the chat turn only after the full
\* failover chain is exhausted: the stream ends in error only if every model of
\* the execution chain was attempted and failed, and if any attempt succeeds the
\* turn succeeds with that attempt's text and model.
C15_FailoverBeforeError ==
  relay.main = "done" => ErrorOnlyAfterExhaustion /\ SuccessWithThatAttempt

\* C17: the token queue is drained fully before stream completion is signalled:
\* every token enqueued is written to the client in a text-delta exactly once and
\* in enqueue order, at most 2 tokens per flush, and all of them are written
\* before the carbon-stats and finish events, also when the producer finished
\* before the drain loop.
C17_DrainedBeforeFinish ==
  /\ StreamedText \o relay.pendingTokens = relay.enqueued
  /\ \A i \in 1..Len(relay.written) :
       /\ relay.written[i].type = "text-delta" =>
            Len(relay.written[i].delta) \in 1..STREAM_TOKENS_PER_FLUSH
       /\ relay.written[i].type \in {"data-carbon-stats", "finish", "error"} =>
            \A j \in i..Len(relay.written) : relay.written[j].type # "text-delta"
  /\ relay.main = "done" => relay.pendingTokens = <<>> /\ StreamedText = relay.enqueued

\* The producer finished with a token still queued, and the turn finished.
C17_Witness ==
  /\ relay.main = "done"
  /\ Written("finish")
  /\ relay.pendingAtClose > 0
  /\ Len(relay.enqueued) >= 3

\* C18: once the request's abort signal has fired, every model subprocess of the
\* request is terminated, including one spawned by a retry or failover step that
\* runs after the abort: no subprocess of an aborted request runs to completion.
C18_AbortTerminatesSubprocesses ==
  /\ ~relay.ranOnAfterAbort
  /\ relay.aborted => relay.child.state # "running"

DrainRunningAborted == relay.aborted /\ relay.drain \notin {"idle", "done"}

\* C19: after the abort signal fires while the drain loop is running, the drain
\* loop eventually exits, for every state of the token queue, so that the finally
\* block completes and the lock is released.
C19_DrainExitsAfterAbort ==
  DrainRunningAborted ~> (relay.drain = "done" /\ relay.released)

\* C20: when at least one token event was received in an attempt, a later final
\* event does not replace the text accumulated from the tokens as the attempt's
\* assistant text.
C20_FinalNotTrustedAfterTokens ==
  /\ relay.child.tokenText # <<>> => relay.child.assistantText = relay.child.tokenText
  /\ relay.succeeded.tokenText # <<>> => relay.succeeded.text = relay.succeeded.tokenText

TurnSucceeded(p) == stream[p].completed /\ ~Blank(stream[p].text)

\* The last stored message of the request's conversation is the assistant's text.
CompletionStored(p) ==
  LET c == request[p].conv
  IN /\ FileExists(c)
     /\ files[c].msgs # <<>>
     /\ files[c].msgs[Len(files[c].msgs)].role = "assistant"
     /\ files[c].msgs[Len(files[c].msgs)].text = stream[p].text

KnobsLocked == areKnobsLockedForUser(knobs.controls, knobs.userId)

BothServed == knobs.first.served /\ knobs.second.served

\* C22: for a user whose knobs are locked, two chat requests that differ
\* only in the carbonSettings they submit get the same routing decision
\* (tier, model, max tokens, history window, summary budget): the one
\* computed from the admin's routingSensitivity and historyCompression.
C22_KnobLock ==
  (KnobsLocked /\ BothServed) =>
    /\ knobs.first.decision = knobs.second.decision
    /\ knobs.first.decision = KnobsDecision(adminCarbonSettings(knobs.controls))

C22_Witness ==
  /\ KnobsLocked /\ BothServed
  /\ knobs.first.raw # knobs.second.raw
  /\ LET asSubmitted(raw) ==
           KnobsDecision(sanitizeCarbonRoutingSettings(raw, adminCarbonSettings(knobs.controls)))
     IN /\ asSubmitted(knobs.first.raw).tier # asSubmitted(knobs.second.raw).tier
        /\ asSubmitted(knobs.first.raw).historyWindowMessages # knobs.first.decision.historyWindowMessages
ThresholdReached(p) ==
  /\ pc[p] = "threshold"
  /\ request[p].promptThreshold # 0
  /\ getStoredPromptCountForUser >= request[p].promptThreshold

\* The request has written nothing, invoked no model and released its lock.
RefusedUntouched(p) ==
  /\ pc[p] = "done"
  /\ ~request[p].saved
  /\ stream[p] = NoStream
  /\ held[p] = 0 /\ releaseCalls[p] = 1
  /\ acqs[request[p].acq].released

\* C23: a chat POST whose user has a prompt threshold and whose stored
\* prompt count has reached it answers 429 (500 when the count cannot be
\* read), writes nothing to the store, invokes no model and releases the
\* conversation lock.
C23_ThresholdRefusal ==
  /\ [](\A p \in Posts : response[p] = 429 => RefusedUntouched(p))
  /\ [][\A p \in Posts :
          (ThresholdReached(p) /\ pc'[p] # "threshold") =>
            /\ response'[p] \in {429, 500}
            /\ RefusedUntouched(p)'
            /\ files' = files /\ globalActive' = globalActive /\ nextId' = nextId]_vars

C23_Witness ==
  \E p \in Posts :
    /\ response[p] = 429 /\ RefusedUntouched(p)
    /\ request[p].promptThreshold # 0
    /\ getStoredPromptCountForUser = request[p].promptThreshold
\* The acquisitions of conversation id c whose caller holds the lock or waits for it.
Unreleased(c) == {n \in 1..Len(acqs) : acqs[n].conv = c /\ ~acqs[n].released}

\* C24: a second call of a release function changes nothing, so it admits
\* no waiter; the map entry of an id is present exactly while some caller
\* holds or waits for the id, and it is the queue those callers use.
C24_ReleaseIdempotentEntryExact ==
  /\ \A c \in LockConvIds :
       /\ (conversationLockQueues[c] # 0) <=> (Unreleased(c) # {})
       /\ \A n \in Unreleased(c) : acqs[n].queue = conversationLockQueues[c]
  /\ \A p \in Callers : ~ENABLED (CallReleaseAgain(p) /\ lockVars' # lockVars)

C24_Witness ==
  \E n, m \in 1..Len(acqs) :
    /\ n < m /\ acqs[n].conv = acqs[m].conv
    /\ acqs[n].released /\ ~acqs[m].returned
    /\ held[acqs[n].owner] = n /\ pc[acqs[n].owner] = "idle"
    /\ conversationLockQueues[acqs[n].conv] = acqs[m].queue
    /\ \E k \in 1..Len(acqs) : acqs[k].conv # acqs[n].conv /\ acqs[k].released
                                  /\ conversationLockQueues[acqs[k].conv] = 0
\* C25: after a successful chat turn the model name stored in the bundle
\* is the model that produced the response.
C25_StoredModelIsModelUsed ==
  \A p \in Posts :
    (pc[p] = "finRelease" /\ TurnSucceeded(p) /\ FileExists(request[p].conv)) =>
      files[request[p].conv].model = stream[p].model
\* Two spawns per attempt, two attempts on the first model when the
\* failover flag is set, one on every other model of the chain.
SpawnBound ==
  2 * ((IF relay.failover THEN 2 ELSE 1) + Len(relay.modelCandidates) - 1)

SpawnAsStated(i) ==
  LET spawn == relay.spawns[i]
      first == i = 1 \/ relay.spawns[i - 1].candidate # spawn.candidate
  IN /\ spawn.attempt \in 1..2
     /\ first => spawn.attempt = 1 /\ spawn.streaming
     /\ ~first =>
          LET before == relay.spawns[i - 1]
          IN IF spawn.streaming
             THEN \* a same-model retry
                  /\ spawn.attempt = before.attempt + 1
                  /\ isRetryableDedalusServerError(spawn.cause)
                  /\ relay.failover /\ spawn.candidate = 1
             ELSE \* the retry without upstream streaming
                  /\ before.streaming /\ before.attempt = spawn.attempt
                  /\ shouldRetryWithoutScriptStreaming(spawn.cause)
     /\ i > 1 => relay.spawns[i - 1].candidate \in {spawn.candidate - 1, spawn.candidate}

\* C26: the candidate loop makes a bounded number of subprocess spawns: a
\* same-model retry only after a retryable upstream-server error with the
\* failover flag set, at most 2 attempts on a model, the retry without
\* streaming at most once per attempt and only after an empty-response
\* error, every model of the chain visited once, and no spawn once the
\* loop has been left.
C26_BoundedSpawns ==
  /\ Len(relay.spawns) <= SpawnBound
  /\ \A i \in 1..Len(relay.spawns) : SpawnAsStated(i)
  /\ \A i, j \in 1..Len(relay.spawns) :
       (i # j) => <<relay.spawns[i].candidate, relay.spawns[i].attempt, relay.spawns[i].streaming>>
                    # <<relay.spawns[j].candidate, relay.spawns[j].attempt, relay.spawns[j].streaming>>
  /\ \A i, j \in 1..Len(relay.modelCandidates) :
       (i # j) => relay.modelCandidates[i] # relay.modelCandidates[j]
  /\ relay.main \in {"awaitDrain", "done"} => relay.child.state # "running"

C26_Witness ==
  /\ relay.main = "done"
  /\ Len(relay.spawns) = SpawnBound
  /\ Len(relay.modelCandidates) = 2 /\ relay.failover
\* C27: on a successful turn the text delivered to the client, the
\* concatenation of its text-delta events, is the assistant text persisted
\* to the conversation store.
C27_StreamedTextIsPersistedText ==
  (relay.main = "done" /\ relay.streamCompleted) => StreamedText = relay.persistedText
\* C28: the assistant append of a chat request never creates a bundle file:
\* a conversation deleted while its stream was in flight stays deleted.
C28_AppendNeverCreates ==
  [][\A p \in Posts :
      (pc[p] = "appendLoad" /\ pc'[p] # "appendLoad") => DOMAIN files' \subseteq DOMAIN files]_vars
RejectedAfterLock(p) == pc[p] = "done" /\ response[p] = 400 /\ request[p].acq # 0

\* C29: a chat POST answered 400 for a payload without user message or
\* without valid attachment has written nothing: when it is the only
\* request served so far, the bundles and the active-conversation pointer
\* are those of the start.
C29_RejectionLeavesStoreUnchanged ==
  \A p \in Posts :
    RejectedAfterLock(p) =>
      /\ ~request[p].saved
      /\ Len(acqs) = 1 => StoreIdle
\* The id a creating call in flight has allocated and not yet returned.
Allocated(p) == pc[p] \in {"ensureSave", "activate"}

\* C30: two creations of a new conversation served at the same time get
\* distinct conversation ids, and a creation never saves its new bundle
\* over a file that exists.
C30_ConcurrentCreationsDistinct ==
  /\ [](\A p, q \in Creators : (p # q /\ Allocated(p) /\ Allocated(q)) => uiCall[p].next # uiCall[q].next)
  /\ [][\A p \in Creators :
          (pc[p] = "ensureSave" /\ pc'[p] = "activate") => ~FileExists(uiCall[p].next)]_vars
====
